---- MODULE Spec2Model ----
(***************************************************************************)
(* A model of the fn-ptr crate: the AbiValue taxonomy (tokens, parsing,    *)
(* canonicalization, unwind predicate), the ABI marker types and the abi!  *)
(* macro, and the impl_fn! generator that emits the function-pointer       *)
(* impls.                                                                  *)
(*                                                                         *)
(* Strings are sequences of one-character strings, so that comparison,     *)
(* prefixes and suffixes are computed and not assumed.                     *)
(***************************************************************************)
EXTENDS Integers, Sequences, FiniteSets, TLC

VARIABLES
    arch,       \* target architecture the crate is compiled for
    os,         \* target operating system
    channel,    \* toolchain channel seen by the build script
    features,   \* cargo features that are enabled
    input,      \* the argument held by the caller of an AbiValue operation
    call,       \* the last AbiValue / marker operation and its result
    pc,         \* compilation phase: "build", "expand", "done" (or "lib");
                \* "types" in a crate that names types, "run" / "aborted"
                \* in a running program
    cfgs,       \* cfg flags emitted by the build script
    pending,    \* impl_fn! invocations still to be expanded, in order
    impls       \* the impls emitted so far, in order

target == <<arch, os, channel, features>>

gen == <<pc, cfgs, pending, impls>>

vars == <<arch, os, channel, features, input, call, pc, cfgs, pending, impls>>

(***************************************************************************)
(* Bounds of the model.                                                    *)
(***************************************************************************)
\* How many padding characters are appended to a token to build inputs
\* that are not tokens.
MaxExtra == 1

\* The highest address of the modelled address space (0 is null).
MaxAddr == 3

(***************************************************************************)
(* Targets: the cfg!(target_arch) / cfg!(target_os) values canonize reads. *)
(***************************************************************************)
Archs == {"x86", "x86_64", "arm", "aarch64", "riscv64"}

OSes == {"windows", "vexos", "linux"}

(***************************************************************************)
(* AbiValue: Rust has no payload, the ten other variants carry `unwind`.   *)
(***************************************************************************)
Rust == [variant |-> "Rust"]

Payload(name, unwind) == [variant |-> name, unwind |-> unwind]

C(unwind) == Payload("C", unwind)

System(unwind) == Payload("System", unwind)

Aapcs(unwind) == Payload("Aapcs", unwind)

Cdecl(unwind) == Payload("Cdecl", unwind)

Stdcall(unwind) == Payload("Stdcall", unwind)

Fastcall(unwind) == Payload("Fastcall", unwind)

Thiscall(unwind) == Payload("Thiscall", unwind)

Vectorcall(unwind) == Payload("Vectorcall", unwind)

SysV64(unwind) == Payload("SysV64", unwind)

Win64(unwind) == Payload("Win64", unwind)

PayloadVariants ==
    {"C", "System", "Aapcs", "Cdecl", "Stdcall", "Fastcall", "Thiscall",
     "Vectorcall", "SysV64", "Win64"}

AbiValue == {Rust} \cup {Payload(n, u) : n \in PayloadVariants, u \in BOOLEAN}

None == [tag |-> "None"]

Some(v) == [tag |-> "Some", val |-> v]

Ok(v) == [tag |-> "Ok", val |-> v]

Err == [tag |-> "Err"]

(***************************************************************************)
(* The token table handed to abi_kind_impl!, in source order.              *)
(***************************************************************************)
AbiTable ==
    << [value |-> Rust, tok |-> <<"R","u","s","t">>],
       [value |-> C(FALSE), tok |-> <<"C">>],
       [value |-> C(TRUE), tok |-> <<"C","-","u","n","w","i","n","d">>],
       [value |-> System(FALSE), tok |-> <<"s","y","s","t","e","m">>],
       [value |-> System(TRUE), tok |-> <<"s","y","s","t","e","m","-","u","n","w","i","n","d">>],
       [value |-> Aapcs(FALSE), tok |-> <<"a","a","p","c","s">>],
       [value |-> Aapcs(TRUE), tok |-> <<"a","a","p","c","s","-","u","n","w","i","n","d">>],
       [value |-> Cdecl(FALSE), tok |-> <<"c","d","e","c","l">>],
       [value |-> Cdecl(TRUE), tok |-> <<"c","d","e","c","l","-","u","n","w","i","n","d">>],
       [value |-> Stdcall(FALSE), tok |-> <<"s","t","d","c","a","l","l">>],
       [value |-> Stdcall(TRUE), tok |-> <<"s","t","d","c","a","l","l","-","u","n","w","i","n","d">>],
       [value |-> Fastcall(FALSE), tok |-> <<"f","a","s","t","c","a","l","l">>],
       [value |-> Fastcall(TRUE), tok |-> <<"f","a","s","t","c","a","l","l","-","u","n","w","i","n","d">>],
       [value |-> Thiscall(FALSE), tok |-> <<"t","h","i","s","c","a","l","l">>],
       [value |-> Thiscall(TRUE), tok |-> <<"t","h","i","s","c","a","l","l","-","u","n","w","i","n","d">>],
       [value |-> Vectorcall(FALSE), tok |-> <<"v","e","c","t","o","r","c","a","l","l">>],
       [value |-> Vectorcall(TRUE), tok |-> <<"v","e","c","t","o","r","c","a","l","l","-","u","n","w","i","n","d">>],
       [value |-> SysV64(FALSE), tok |-> <<"s","y","s","v","6","4">>],
       [value |-> SysV64(TRUE), tok |-> <<"s","y","s","v","6","4","-","u","n","w","i","n","d">>],
       [value |-> Win64(FALSE), tok |-> <<"w","i","n","6","4">>],
       [value |-> Win64(TRUE), tok |-> <<"w","i","n","6","4","-","u","n","w","i","n","d">>] >>

\* konst::eq_str with a prefix comparison instead of a full one.
eq_str_prefix(a, b) ==
    /\ Len(a) >= Len(b)
    /\ \A i \in 1..Len(b) : a[i] = b[i]

\* konst::eq_str: same length and the same byte at every index.
eq_str(a, b) ==
    /\ Len(a) = Len(b)
    /\ \A i \in 1..Len(a) : a[i] = b[i]

\* The arms of `match self` in to_str, tried in source order.
RECURSIVE to_str_from(_, _)
to_str_from(self, i) ==
    IF i > Len(AbiTable) THEN <<"!","u","n","r","e","a","c","h","a","b","l","e">>
    ELSE IF AbiTable[i].value = self THEN AbiTable[i].tok
    ELSE to_str_from(self, i + 1)

to_str(self) == to_str_from(self, 1)

\* The chain of `if konst::eq_str(conv, $tok) { return Some(..) }` statements.
RECURSIVE from_str_const_from(_, _)
from_str_const_from(conv, i) ==
    IF i > Len(AbiTable) THEN None
    ELSE IF eq_str(conv, AbiTable[i].tok) THEN Some(AbiTable[i].value)
    ELSE from_str_const_from(conv, i + 1)

\* from_str_const with an extra arm that accepts the empty string as Rust.
from_str_const_permissive(conv) ==
    IF conv = <<>> THEN Some(Rust) ELSE from_str_const_from(conv, 1)

from_str_const(conv) == from_str_const_from(conv, 1)

\* FromStr::from_str: `match s` over the string-literal arms, `_ => Err(())`.
from_str(s) ==
    IF \E i \in 1..Len(AbiTable) : AbiTable[i].tok = s
    THEN LET i == CHOOSE k \in 1..Len(AbiTable) :
                     /\ AbiTable[k].tok = s
                     /\ \A j \in 1..(k - 1) : AbiTable[j].tok # s
         IN  Ok(AbiTable[i].value)
    ELSE Err

(***************************************************************************)
(* AbiValue::allows_unwind.                                                *)
(***************************************************************************)
\* allows_unwind with the Rust arm returning false.
allows_unwind_rust_false(self) ==
    IF self.variant = "Rust" THEN FALSE ELSE self.unwind

allows_unwind(self) ==
    IF self.variant = "Rust" THEN TRUE ELSE self.unwind

(***************************************************************************)
(* AbiValue::canonize on the target (arch, os).                            *)
(***************************************************************************)
canonize_on(a, o, self, has_c_varargs) ==
    LET os_windows == o = "windows"
        os_vexos == o = "vexos"
        arch_x86 == a = "x86"
        arch_x86_64 == a = "x86_64"
        arch_arm == a = "arm"
        arch_aarch64 == a = "aarch64"
        arch_arm_any == arch_arm \/ arch_aarch64
        v == self.variant
    IN  CASE v = "C" -> Some(C(self.unwind))
          [] v = "Rust" -> Some(Rust)
          [] v = "System" /\ arch_x86 /\ os_windows /\ ~has_c_varargs ->
                 Some(Stdcall(self.unwind))
          [] v = "System" /\ ~(arch_x86 /\ os_windows /\ ~has_c_varargs)
                 /\ arch_arm /\ os_vexos -> Some(Aapcs(self.unwind))
          [] v = "System" /\ ~(arch_x86 /\ os_windows /\ ~has_c_varargs)
                 /\ ~(arch_arm /\ os_vexos) -> Some(C(self.unwind))
          [] v = "Aapcs" /\ arch_arm_any -> Some(Aapcs(self.unwind))
          [] v = "Aapcs" /\ ~arch_arm_any -> None
          [] v = "Cdecl" /\ arch_x86 -> Some(C(self.unwind))
          [] v = "Cdecl" /\ ~arch_x86 -> Some(C(self.unwind))
          [] v = "Fastcall" /\ arch_x86 -> Some(Fastcall(self.unwind))
          [] v = "Fastcall" /\ ~arch_x86 /\ os_windows -> Some(C(self.unwind))
          [] v = "Fastcall" /\ ~arch_x86 /\ ~os_windows -> None
          [] v = "Stdcall" /\ arch_x86 -> Some(Stdcall(self.unwind))
          [] v = "Stdcall" /\ ~arch_x86 /\ os_windows -> Some(C(self.unwind))
          [] v = "Stdcall" /\ ~arch_x86 /\ ~os_windows -> None
          [] v = "Thiscall" /\ arch_x86 -> Some(Thiscall(self.unwind))
          [] v = "Thiscall" /\ ~arch_x86 -> None
          [] v = "Vectorcall" /\ (arch_x86 \/ arch_x86_64) ->
                 Some(Vectorcall(self.unwind))
          [] v = "Vectorcall" /\ ~(arch_x86 \/ arch_x86_64) -> None
          [] v = "SysV64" /\ arch_x86_64 -> Some(SysV64(self.unwind))
          [] v = "Win64" /\ arch_x86_64 -> Some(Win64(self.unwind))
          [] v \in {"SysV64", "Win64"} /\ ~arch_x86_64 -> None

\* canonize with Thiscall also accepted on x86_64.
canonize_thiscall_x86_64(self, has_c_varargs) ==
    IF self.variant = "Thiscall" /\ arch = "x86_64"
    THEN Some(self)
    ELSE canonize_on(arch, os, self, has_c_varargs)

\* canonize with the `!has_c_varargs` condition of the System arm dropped.
canonize_ignores_varargs(self, has_c_varargs) ==
    canonize_on(arch, os, self, FALSE)

\* canonize with Cdecl kept as Cdecl on x86.
canonize_cdecl_kept(self, has_c_varargs) ==
    IF self.variant = "Cdecl" /\ arch = "x86"
    THEN Some(self)
    ELSE canonize_on(arch, os, self, has_c_varargs)

\* canonize with the alias arms building their result with `unwind: false`.
canonize_alias_drops_unwind(self, has_c_varargs) ==
    LET r == canonize_on(arch, os, self, has_c_varargs)
    IN  IF self.variant \in {"System", "Cdecl"} /\ r.tag = "Some"
        THEN Some(Payload(r.val.variant, FALSE))
        ELSE r

\* canonize with the non-x86 Windows arm of Fastcall giving Stdcall.
canonize_fastcall_to_stdcall(self, has_c_varargs) ==
    IF self.variant = "Fastcall" /\ arch # "x86" /\ os = "windows"
    THEN Some(Stdcall(self.unwind))
    ELSE canonize_on(arch, os, self, has_c_varargs)

canonize(self, has_c_varargs) == canonize_on(arch, os, self, has_c_varargs)

(***************************************************************************)
(* The ABI marker types (define_abi_marker!) and the abi! macro.           *)
(***************************************************************************)
\* The define_abi_marker!(Name, "lit") invocations, in source order.
AbiMarkers ==
    << [name |-> "C", lit |-> <<"C">>],
       [name |-> "CUnwind", lit |-> <<"C","-","u","n","w","i","n","d">>],
       [name |-> "System", lit |-> <<"s","y","s","t","e","m">>],
       [name |-> "SystemUnwind", lit |-> <<"s","y","s","t","e","m","-","u","n","w","i","n","d">>],
       [name |-> "Rust", lit |-> <<"R","u","s","t">>],
       [name |-> "Aapcs", lit |-> <<"a","a","p","c","s">>],
       [name |-> "AapcsUnwind", lit |-> <<"a","a","p","c","s","-","u","n","w","i","n","d">>],
       [name |-> "Cdecl", lit |-> <<"c","d","e","c","l">>],
       [name |-> "CdeclUnwind", lit |-> <<"c","d","e","c","l","-","u","n","w","i","n","d">>],
       [name |-> "Stdcall", lit |-> <<"s","t","d","c","a","l","l">>],
       [name |-> "StdcallUnwind", lit |-> <<"s","t","d","c","a","l","l","-","u","n","w","i","n","d">>],
       [name |-> "Fastcall", lit |-> <<"f","a","s","t","c","a","l","l">>],
       [name |-> "FastcallUnwind", lit |-> <<"f","a","s","t","c","a","l","l","-","u","n","w","i","n","d">>],
       [name |-> "Thiscall", lit |-> <<"t","h","i","s","c","a","l","l">>],
       [name |-> "ThiscallUnwind", lit |-> <<"t","h","i","s","c","a","l","l","-","u","n","w","i","n","d">>],
       [name |-> "Vectorcall", lit |-> <<"v","e","c","t","o","r","c","a","l","l">>],
       [name |-> "VectorcallUnwind", lit |-> <<"v","e","c","t","o","r","c","a","l","l","-","u","n","w","i","n","d">>],
       [name |-> "SysV64", lit |-> <<"s","y","s","v","6","4">>],
       [name |-> "SysV64Unwind", lit |-> <<"s","y","s","v","6","4","-","u","n","w","i","n","d">>],
       [name |-> "Win64", lit |-> <<"w","i","n","6","4">>],
       [name |-> "Win64Unwind", lit |-> <<"w","i","n","6","4","-","u","n","w","i","n","d">>] >>

MarkerNames == {AbiMarkers[i].name : i \in 1..Len(AbiMarkers)}

\* Option::unwrap: the payload of Some; a None makes the constant fail to
\* evaluate (a compile error), kept as the value Panic.
Panic == [tag |-> "Panic"]

unwrap(opt) == IF opt.tag = "Some" THEN opt.val ELSE Panic

\* The marker definition of a name (each name is defined once).
MarkerDef(name) ==
    AbiMarkers[CHOOSE i \in 1..Len(AbiMarkers) : AbiMarkers[i].name = name]

\* `const STR: &'static str = $lit;`
MarkerSTR(name) == MarkerDef(name).lit

\* `const VALUE: Abi = Abi::from_str_const($lit).unwrap();`
MarkerVALUE(name) == unwrap(from_str_const(MarkerDef(name).lit))

\* `const ALLOWS_UNWIND: bool = Self::VALUE.allows_unwind();`
MarkerALLOWS_UNWIND(name) == allows_unwind(MarkerVALUE(name))

\* The arms of the abi! macro, in source order.
AbiMacroArms ==
    << [tok |-> <<"R","u","s","t">>, marker |-> "Rust"],
       [tok |-> <<"C">>, marker |-> "C"],
       [tok |-> <<"C","-","u","n","w","i","n","d">>, marker |-> "CUnwind"],
       [tok |-> <<"s","y","s","t","e","m">>, marker |-> "System"],
       [tok |-> <<"s","y","s","t","e","m","-","u","n","w","i","n","d">>, marker |-> "SystemUnwind"],
       [tok |-> <<"a","a","p","c","s">>, marker |-> "Aapcs"],
       [tok |-> <<"a","a","p","c","s","-","u","n","w","i","n","d">>, marker |-> "AapcsUnwind"],
       [tok |-> <<"c","d","e","c","l">>, marker |-> "Cdecl"],
       [tok |-> <<"c","d","e","c","l","-","u","n","w","i","n","d">>, marker |-> "CdeclUnwind"],
       [tok |-> <<"s","t","d","c","a","l","l">>, marker |-> "Stdcall"],
       [tok |-> <<"s","t","d","c","a","l","l","-","u","n","w","i","n","d">>, marker |-> "StdcallUnwind"],
       [tok |-> <<"f","a","s","t","c","a","l","l">>, marker |-> "Fastcall"],
       [tok |-> <<"f","a","s","t","c","a","l","l","-","u","n","w","i","n","d">>, marker |-> "FastcallUnwind"],
       [tok |-> <<"t","h","i","s","c","a","l","l">>, marker |-> "Thiscall"],
       [tok |-> <<"t","h","i","s","c","a","l","l","-","u","n","w","i","n","d">>, marker |-> "ThiscallUnwind"],
       [tok |-> <<"v","e","c","t","o","r","c","a","l","l">>, marker |-> "Vectorcall"],
       [tok |-> <<"v","e","c","t","o","r","c","a","l","l","-","u","n","w","i","n","d">>, marker |-> "VectorcallUnwind"],
       [tok |-> <<"s","y","s","v","6","4">>, marker |-> "SysV64"],
       [tok |-> <<"s","y","s","v","6","4","-","u","n","w","i","n","d">>, marker |-> "SysV64Unwind"],
       [tok |-> <<"w","i","n","6","4">>, marker |-> "Win64"],
       [tok |-> <<"w","i","n","6","4","-","u","n","w","i","n","d">>, marker |-> "Win64Unwind"] >>

\* No arm of a macro_rules! macro matches the input: a compile error.
NoRule == "!no rules expected this token"

\* macro_rules! tries the arms in order; the first matching literal wins.
RECURSIVE abi_macro_from(_, _)
abi_macro_from(tok, i) ==
    IF i > Len(AbiMacroArms) THEN NoRule
    ELSE IF AbiMacroArms[i].tok = tok THEN AbiMacroArms[i].marker
    ELSE abi_macro_from(tok, i + 1)

\* abi! with the two x86_64 arms exchanged.
abi_macro_swapped(tok) ==
    LET m == abi_macro_from(tok, 1)
    IN  CASE m = "SysV64" -> "Win64"
          [] m = "Win64" -> "SysV64"
          [] OTHER -> m

abi_macro(tok) == abi_macro_from(tok, 1)

(***************************************************************************)
(* Input strings: the tokens, and strings near them that are not tokens.   *)
(***************************************************************************)
Tokens == {AbiTable[i].tok : i \in 1..Len(AbiTable)}

UnwindSuffix == <<"-","u","n","w","i","n","d">>

LowerLetters ==
    <<"a","c","d","e","f","h","i","l","m","n","o","p","r","s","t","u","v","w","y">>

UpperLetters ==
    <<"A","C","D","E","F","H","I","L","M","N","O","P","R","S","T","U","V","W","Y">>

Swap(c, from, to) ==
    IF \E i \in 1..Len(from) : from[i] = c
    THEN to[CHOOSE i \in 1..Len(from) : from[i] = c]
    ELSE c

ToUpper(s) == [i \in 1..Len(s) |-> Swap(s[i], LowerLetters, UpperLetters)]

ToLower(s) == [i \in 1..Len(s) |-> Swap(s[i], UpperLetters, LowerLetters)]

Pad(n) == [i \in 1..n |-> " "]

EndsWith(s, suffix) ==
    /\ Len(s) >= Len(suffix)
    /\ SubSeq(s, Len(s) - Len(suffix) + 1, Len(s)) = suffix

InputStrings ==
    Tokens
    \cup UNION {{SubSeq(t, 1, n) : n \in 0..Len(t)} : t \in Tokens}
    \cup {ToUpper(t) : t \in Tokens}
    \cup {ToLower(t) : t \in Tokens}
    \cup {t \o UnwindSuffix : t \in Tokens}
    \cup {t \o Pad(n) : t \in Tokens, n \in 1..MaxExtra}
    \cup {Pad(n) \o t : t \in Tokens, n \in 1..MaxExtra}

(***************************************************************************)
(* The state machine of the ABI taxonomy.  The target is fixed when the    *)
(* crate is compiled; `input` is the argument the caller holds (a string,  *)
(* an AbiValue with a has_c_varargs flag, or a marker type), and every     *)
(* action is one call on it, recorded in `call`.                           *)
(***************************************************************************)
NoCall == [op |-> "none"]

Inputs ==
    {[kind |-> "str", s |-> s] : s \in InputStrings}
    \cup {[kind |-> "abi", v |-> v, has_c_varargs |-> h] :
              v \in AbiValue, h \in BOOLEAN}
    \cup {[kind |-> "marker", name |-> m] : m \in MarkerNames}

\* The crate is compiled for the target; the generator is not observed.
AbiInit ==
    /\ arch \in Archs
    /\ os \in OSes
    /\ channel = "stable"
    /\ features = {}
    /\ input \in Inputs
    /\ call = NoCall
    /\ pc = "lib"
    /\ cfgs = {}
    /\ pending = <<>>
    /\ impls = <<>>

ToStr ==
    /\ input.kind = "abi"
    /\ call' = [op |-> "to_str", self |-> input.v, out |-> to_str(input.v)]
    /\ UNCHANGED <<target, input, gen>>

FromStr ==
    /\ input.kind = "str"
    /\ call' = [op |-> "from_str", s |-> input.s, out |-> from_str(input.s)]
    /\ UNCHANGED <<target, input, gen>>

FromStrConst ==
    /\ input.kind = "str"
    /\ call' = [op |-> "from_str_const", s |-> input.s,
                out |-> from_str_const(input.s)]
    /\ UNCHANGED <<target, input, gen>>

AllowsUnwind ==
    /\ input.kind = "abi"
    /\ call' = [op |-> "allows_unwind", self |-> input.v,
                out |-> allows_unwind(input.v)]
    /\ UNCHANGED <<target, input, gen>>

Canonize ==
    /\ input.kind = "abi"
    /\ call' = [op |-> "canonize", self |-> input.v,
                has_c_varargs |-> input.has_c_varargs,
                out |-> canonize(input.v, input.has_c_varargs)]
    /\ UNCHANGED <<target, input, gen>>

\* Evaluating the associated constants of one marker type.
MarkerConsts ==
    /\ input.kind = "marker"
    /\ call' = [op |-> "marker", name |-> input.name,
                STR |-> MarkerSTR(input.name),
                VALUE |-> MarkerVALUE(input.name),
                ALLOWS_UNWIND |-> MarkerALLOWS_UNWIND(input.name)]
    /\ UNCHANGED <<target, input, gen>>

AbiMacro ==
    /\ input.kind = "str"
    /\ call' = [op |-> "abi!", tok |-> input.s, out |-> abi_macro(input.s)]
    /\ UNCHANGED <<target, input, gen>>

AbiNext ==
    \/ ToStr
    \/ FromStr
    \/ FromStrConst
    \/ AllowsUnwind
    \/ Canonize
    \/ MarkerConsts
    \/ AbiMacro

(***************************************************************************)
(* The build script (build.rs): the cfg flags it emits for a target.       *)
(***************************************************************************)
Channels == {"stable", "nightly"}

Features == {"nightly", "stable", "abi_vectorcall", "max-arity-12"}

\* main that also emits has_abi_thiscall on x86_64.
BuildMain_thiscall_on_x86_64(a, o, ch, feats) ==
    LET use_nightly ==
            ("nightly" \in feats /\ "stable" \notin feats) \/ ch = "nightly"
    IN  (IF use_nightly THEN {"nightly"} ELSE {})
        \cup (IF a = "x86"
              THEN {"has_abi_cdecl", "has_abi_stdcall", "has_abi_fastcall",
                    "has_abi_thiscall"}
              ELSE {})
        \cup (IF a \in {"x86", "x86_64"} /\ "abi_vectorcall" \in feats
                 /\ use_nightly
              THEN {"has_abi_vectorcall"}
              ELSE {})
        \cup (IF a = "x86_64"
              THEN (IF o = "windows" THEN {"has_abi_win64"}
                    ELSE {"has_abi_sysv64"})
              ELSE {})
        \cup (IF a = "arm" THEN {"has_abi_aapcs"} ELSE {})
        \cup (IF a = "x86_64" THEN {"has_abi_thiscall"} ELSE {})

\* main that also emits has_abi_stdcall on every Windows target.
BuildMain_stdcall_on_windows(a, o, ch, feats) ==
    LET use_nightly ==
            ("nightly" \in feats /\ "stable" \notin feats) \/ ch = "nightly"
    IN  (IF use_nightly THEN {"nightly"} ELSE {})
        \cup (IF a = "x86"
              THEN {"has_abi_cdecl", "has_abi_stdcall", "has_abi_fastcall",
                    "has_abi_thiscall"}
              ELSE {})
        \cup (IF a \in {"x86", "x86_64"} /\ "abi_vectorcall" \in feats
                 /\ use_nightly
              THEN {"has_abi_vectorcall"}
              ELSE {})
        \cup (IF a = "x86_64"
              THEN (IF o = "windows" THEN {"has_abi_win64"}
                    ELSE {"has_abi_sysv64"})
              ELSE {})
        \cup (IF a = "arm" THEN {"has_abi_aapcs"} ELSE {})
        \cup (IF o = "windows" THEN {"has_abi_stdcall"} ELSE {})

\* build.rs main: the cfg flags emitted for a target and a feature set.
BuildMain(a, o, ch, feats) ==
    LET use_nightly ==
            ("nightly" \in feats /\ "stable" \notin feats) \/ ch = "nightly"
    IN  (IF use_nightly THEN {"nightly"} ELSE {})
        \cup (IF a = "x86"
              THEN {"has_abi_cdecl", "has_abi_stdcall", "has_abi_fastcall",
                    "has_abi_thiscall"}
              ELSE {})
        \cup (IF a \in {"x86", "x86_64"} /\ "abi_vectorcall" \in feats
                 /\ use_nightly
              THEN {"has_abi_vectorcall"}
              ELSE {})
        \cup (IF a = "x86_64"
              THEN (IF o = "windows" THEN {"has_abi_win64"}
                    ELSE {"has_abi_sysv64"})
              ELSE {})
        \cup (IF a = "arm" THEN {"has_abi_aapcs"} ELSE {})

(***************************************************************************)
(* Arity markers (define_arity_marker!) and Tuple impls (impl_tuple!).     *)
(***************************************************************************)
ArityMarkers ==
    << [name |-> "A0", n |-> 0], [name |-> "A1", n |-> 1],
       [name |-> "A2", n |-> 2], [name |-> "A3", n |-> 3],
       [name |-> "A4", n |-> 4], [name |-> "A5", n |-> 5],
       [name |-> "A6", n |-> 6], [name |-> "A7", n |-> 7],
       [name |-> "A8", n |-> 8], [name |-> "A9", n |-> 9],
       [name |-> "A10", n |-> 10], [name |-> "A11", n |-> 11],
       [name |-> "A12", n |-> 12] >>

\* `const N: usize = $n;` of the marker called name.
ArityN(name) ==
    ArityMarkers[CHOOSE i \in 1..Len(ArityMarkers) :
                     ArityMarkers[i].name = name].n

Ts(n) == [i \in 1..n |-> i]

\* The impl_tuple! invocations: the arity marker, the tuple's type
\* parameters, and the feature that gates the invocation ("" for none).
ImplTuples ==
    << [arity |-> "A0", T |-> Ts(0), feature |-> ""],
       [arity |-> "A1", T |-> Ts(1), feature |-> ""],
       [arity |-> "A2", T |-> Ts(2), feature |-> ""],
       [arity |-> "A3", T |-> Ts(3), feature |-> ""],
       [arity |-> "A4", T |-> Ts(4), feature |-> ""],
       [arity |-> "A5", T |-> Ts(5), feature |-> ""],
       [arity |-> "A6", T |-> Ts(6), feature |-> ""],
       [arity |-> "A7", T |-> Ts(7), feature |-> "max-arity-12"],
       [arity |-> "A8", T |-> Ts(8), feature |-> "max-arity-12"],
       [arity |-> "A9", T |-> Ts(9), feature |-> "max-arity-12"],
       [arity |-> "A10", T |-> Ts(10), feature |-> "max-arity-12"],
       [arity |-> "A11", T |-> Ts(11), feature |-> "max-arity-12"],
       [arity |-> "A12", T |-> Ts(12), feature |-> "max-arity-12"] >>

\* A tuple type has no Tuple impl in this build.
NoImpl == "!the trait bound is not satisfied"

\* <Args as Tuple>::Arity: the impl whose tuple has as many type parameters
\* as Args has elements, when its feature gate is on.
TupleArity(args) ==
    LET hit == {i \in 1..Len(ImplTuples) :
                    /\ Len(ImplTuples[i].T) = Len(args)
                    /\ ImplTuples[i].feature \in features \cup {""}}
    IN  IF hit = {} THEN NoImpl ELSE ImplTuples[CHOOSE i \in hit : TRUE].arity

(***************************************************************************)
(* The impl generator impl_fn! (impl.rs).                                  *)
(***************************************************************************)
\* A pointer type written without the `extern` keyword.
NoExtern == <<>>

\* The syntax of a function-pointer type:
\* [unsafe] [extern "abi"] fn(params) -> Ret.
FnTy(unsafe, abi, params) ==
    [unsafe |-> unsafe, abi |-> abi, params |-> params, ret |-> "Ret"]

\* The two crate-level invocations of impl_fn!.
List6 ==
    << [nm |-> "__arg_0", ty |-> "A"], [nm |-> "__arg_1", ty |-> "B"],
       [nm |-> "__arg_2", ty |-> "C"], [nm |-> "__arg_3", ty |-> "D"],
       [nm |-> "__arg_4", ty |-> "E"], [nm |-> "__arg_5", ty |-> "F"] >>

List12 ==
    << [nm |-> "__arg_0", ty |-> "A"], [nm |-> "__arg_1", ty |-> "B"],
       [nm |-> "__arg_2", ty |-> "C"], [nm |-> "__arg_3", ty |-> "D"],
       [nm |-> "__arg_4", ty |-> "E"], [nm |-> "__arg_5", ty |-> "F"],
       [nm |-> "__arg_6", ty |-> "G"], [nm |-> "__arg_7", ty |-> "H"],
       [nm |-> "__arg_8", ty |-> "I"], [nm |-> "__arg_9", ty |-> "J"],
       [nm |-> "__arg_10", ty |-> "K"], [nm |-> "__arg_11", ty |-> "L"] >>

Invocations ==
    << [arm |-> "entry", list |-> List6] >>
    \o (IF "max-arity-12" \in features
        THEN << [arm |-> "entry", list |-> List12] >>
        ELSE <<>>)

\* `$($ty),*` of a list of `$nm : $ty` pairs.
Tys(list) == [i \in 1..Len(list) |-> list[i].ty]

\* @count that does not count the head of the list.
RECURSIVE count_skips_head(_)
count_skips_head(tts) ==
    IF tts = <<>> THEN 0
    ELSE IF Len(tts) = 1 THEN 0
    ELSE 1 + count_skips_head(Tail(tts))

\* impl_fn!(@count (...)): 0 for the empty list, 1 + the count of the tail.
RECURSIVE count(_)
count(tts) ==
    IF tts = <<>> THEN 0 ELSE 1 + count(Tail(tts))

\* The variant of the Abi enum an identifier of impl.rs names; the unit
\* variants of impl.rs are the `unwind: false` values, and impl.rs spells
\* the SysV64 variant `Sysv64`.
AbiOfIdent(ident) ==
    CASE ident = "Rust" -> Rust
      [] ident = "C" -> C(FALSE)
      [] ident = "System" -> System(FALSE)
      [] ident = "Cdecl" -> Cdecl(FALSE)
      [] ident = "Stdcall" -> Stdcall(FALSE)
      [] ident = "Fastcall" -> Fastcall(FALSE)
      [] ident = "Win64" -> Win64(FALSE)
      [] ident = "Sysv64" -> SysV64(FALSE)
      [] ident = "Aapcs" -> Aapcs(FALSE)

\* An item under #[cfg(flag)]: kept when the build script emitted the flag.
Cfg(flag, items) == IF flag \in cfgs THEN items ELSE <<>>

\* The WithAbi table whose targets are all written without `unsafe`.
WithAbiImpls_safe_targets(tys, unsafe) ==
    << [abi |-> "Rust", F |-> FnTy(FALSE, NoExtern, tys)],
       [abi |-> "C", F |-> FnTy(FALSE, <<"C">>, tys)],
       [abi |-> "System", F |-> FnTy(FALSE, <<"s","y","s","t","e","m">>, tys)] >>

\* The WithAbi table whose Rust entry names the extern "C" pointer.
WithAbiImpls_rust_as_c(tys, unsafe) ==
    << [abi |-> "Rust", F |-> FnTy(unsafe, <<"C">>, tys)],
       [abi |-> "C", F |-> FnTy(unsafe, <<"C">>, tys)],
       [abi |-> "System", F |-> FnTy(unsafe, <<"s","y","s","t","e","m">>, tys)] >>

\* The WithAbi impls one @impl_core arm emits for a source type: one per
\* target ABI, each naming the target type with the arm's safety.
WithAbiImpls(tys, unsafe) ==
    << [abi |-> "Rust", F |-> FnTy(unsafe, NoExtern, tys)],
       [abi |-> "C", F |-> FnTy(unsafe, <<"C">>, tys)],
       [abi |-> "System", F |-> FnTy(unsafe, <<"s","y","s","t","e","m">>, tys)] >>
    \o Cfg("has_abi_cdecl",
           << [abi |-> "Cdecl",
               F |-> FnTy(unsafe, <<"c","d","e","c","l">>, tys)] >>)
    \o Cfg("has_abi_stdcall",
           << [abi |-> "Stdcall",
               F |-> FnTy(unsafe, <<"s","t","d","c","a","l","l">>, tys)] >>)
    \o Cfg("has_abi_fastcall",
           << [abi |-> "Fastcall",
               F |-> FnTy(unsafe, <<"f","a","s","t","c","a","l","l">>, tys)] >>)
    \o Cfg("has_abi_win64",
           << [abi |-> "Win64",
               F |-> FnTy(unsafe, <<"w","i","n","6","4">>, tys)] >>)
    \o Cfg("has_abi_sysv64",
           << [abi |-> "Sysv64",
               F |-> FnTy(unsafe, <<"s","y","s","v","6","4">>, tys)] >>)
    \o Cfg("has_abi_aapcs",
           << [abi |-> "Aapcs",
               F |-> FnTy(unsafe, <<"a","a","p","c","s">>, tys)] >>)

\* @impl_core: the FunctionPtr impl for $fn_type and its WithAbi impls.  The
\* four arms are selected by the `true`/`false` literal and by whether the
\* ABI identifier is the literal `Rust`.
impl_core(list, fn_type, safe, is_extern, abi_ident, call_conv) ==
    << [for |-> fn_type,
        Args |-> Tys(list),
        Output |-> "Ret",
        ARITY |-> count(Tys(list)),
        SAFE |-> IF safe THEN TRUE ELSE FALSE,
        EXTERN |-> is_extern,
        ABI |-> IF abi_ident = "Rust" THEN AbiOfIdent("Rust")
                ELSE AbiOfIdent(abi_ident),
        with_abi |-> WithAbiImpls(Tys(list), ~safe)] >>

\* @impl_u_and_s that passes `false` for $is_extern.
impl_u_and_s_not_extern(list, abi_ident, abi_str) ==
    impl_core(list, FnTy(FALSE, abi_str, Tys(list)), TRUE, FALSE,
              abi_ident, abi_str)
    \o impl_core(list, FnTy(TRUE, abi_str, Tys(list)), FALSE, FALSE,
                 abi_ident, abi_str)

\* @impl_u_and_s that passes `true` as the safety literal of both rows.
impl_u_and_s_both_safe(list, abi_ident, abi_str) ==
    impl_core(list, FnTy(FALSE, abi_str, Tys(list)), TRUE, TRUE,
              abi_ident, abi_str)
    \o impl_core(list, FnTy(TRUE, abi_str, Tys(list)), TRUE, TRUE,
                 abi_ident, abi_str)

\* @impl_u_and_s: the safe and the unsafe `extern $abi_str` pointer.
impl_u_and_s(list, abi_ident, abi_str) ==
    impl_core(list, FnTy(FALSE, abi_str, Tys(list)), TRUE, TRUE,
              abi_ident, abi_str)
    \o impl_core(list, FnTy(TRUE, abi_str, Tys(list)), FALSE, TRUE,
                 abi_ident, abi_str)

\* @impl_all: every (safety, abi) row of one parameter list.
impl_all(list) ==
    impl_core(list, FnTy(FALSE, NoExtern, Tys(list)), TRUE, FALSE,
              "Rust", <<"R","u","s","t">>)
    \o impl_core(list, FnTy(TRUE, NoExtern, Tys(list)), FALSE, FALSE,
                 "Rust", <<"R","u","s","t">>)
    \o impl_u_and_s(list, "C", <<"C">>)
    \o impl_u_and_s(list, "System", <<"s","y","s","t","e","m">>)
    \o Cfg("has_abi_cdecl",
           impl_u_and_s(list, "Cdecl", <<"c","d","e","c","l">>))
    \o Cfg("has_abi_stdcall",
           impl_u_and_s(list, "Stdcall", <<"s","t","d","c","a","l","l">>))
    \o Cfg("has_abi_fastcall",
           impl_u_and_s(list, "Fastcall", <<"f","a","s","t","c","a","l","l">>))
    \o Cfg("has_abi_win64",
           impl_u_and_s(list, "Win64", <<"w","i","n","6","4">>))
    \o Cfg("has_abi_sysv64",
           impl_u_and_s(list, "Sysv64", <<"s","y","s","v","6","4">>))
    \o Cfg("has_abi_aapcs",
           impl_u_and_s(list, "Aapcs", <<"a","a","p","c","s">>))

(***************************************************************************)
(* The state machine of one compilation: the build script runs, then the   *)
(* impl_fn! invocations are expanded one macro step at a time.             *)
(***************************************************************************)
GenInit ==
    /\ arch \in Archs
    /\ os \in OSes
    /\ channel \in Channels
    /\ features \in SUBSET Features
    /\ input = [kind |-> "none"]
    /\ call = NoCall
    /\ pc = "build"
    /\ cfgs = {}
    /\ pending = Invocations
    /\ impls = <<>>

\* build.rs main.
Build ==
    /\ pc = "build"
    /\ cfgs' = BuildMain(arch, os, channel, features)
    /\ pc' = "expand"
    /\ UNCHANGED <<target, input, call, pending, impls>>

\* The entry arm: impl_fn!(list) becomes impl_fn!(@recurse (list) ()).
ExpandEntry ==
    /\ pc = "expand"
    /\ pending # <<>>
    /\ Head(pending).arm = "entry"
    /\ pending' = << [arm |-> "recurse", rest |-> Head(pending).list,
                      acc |-> <<>>] >> \o Tail(pending)
    /\ UNCHANGED <<target, input, call, pc, cfgs, impls>>

\* @recurse that puts the head in front of the accumulated prefix.
ExpandRecurse_prepends ==
    /\ pc = "expand"
    /\ pending # <<>>
    /\ Head(pending).arm = "recurse"
    /\ LET inv == Head(pending)
           next == IF inv.rest = <<>> THEN <<>>
                   ELSE << [arm |-> "recurse", rest |-> Tail(inv.rest),
                            acc |-> <<Head(inv.rest)>> \o inv.acc] >>
       IN  /\ impls' = impls \o impl_all(inv.acc)
           /\ pending' = next \o Tail(pending)
           /\ pc' = IF next \o Tail(pending) = <<>> THEN "done" ELSE "expand"
    /\ UNCHANGED <<target, input, call, cfgs>>

\* The two @recurse arms: @impl_all of the accumulated prefix, and, when
\* parameters remain, @recurse with the head moved to the prefix.
ExpandRecurse ==
    /\ pc = "expand"
    /\ pending # <<>>
    /\ Head(pending).arm = "recurse"
    /\ LET inv == Head(pending)
           next == IF inv.rest = <<>> THEN <<>>
                   ELSE << [arm |-> "recurse", rest |-> Tail(inv.rest),
                            acc |-> Append(inv.acc, Head(inv.rest))] >>
       IN  /\ impls' = impls \o impl_all(inv.acc)
           /\ pending' = next \o Tail(pending)
           /\ pc' = IF next \o Tail(pending) = <<>> THEN "done" ELSE "expand"
    /\ UNCHANGED <<target, input, call, cfgs>>

GenNext ==
    \/ Build
    \/ ExpandEntry
    \/ ExpandRecurse

SpecGen == GenInit /\ [][GenNext]_vars

(***************************************************************************)
(* Reflection: the safety markers (safety.rs), the const helpers (lib.rs), *)
(* and the callable subtraits (base.rs).                                   *)
(***************************************************************************)
SafetyMarkers ==
    << [name |-> "Safe", IS_SAFE |-> TRUE],
       [name |-> "Unsafe", IS_SAFE |-> FALSE] >>

SafetyNames == {SafetyMarkers[i].name : i \in 1..Len(SafetyMarkers)}

\* <S as Safety>::IS_SAFE.
SafetyIS_SAFE(name) ==
    SafetyMarkers[CHOOSE i \in 1..Len(SafetyMarkers) :
                      SafetyMarkers[i].name = name].IS_SAFE

\* is_safe::<F>() for the type of row r: F::IS_SAFE.
is_safe(r) == r.SAFE

\* is_unsafe::<F>(): !is_safe::<F>().
is_unsafe(r) == ~is_safe(r)

\* `type Safety` of the row: the marker whose IS_SAFE is the row's constant
\* (IS_SAFE is <Self::Safety as Safety>::IS_SAFE).
RowSafety(r) ==
    CHOOSE s \in SafetyNames : SafetyIS_SAFE(s) = r.SAFE

\* `type Abi` of the row: the marker whose VALUE is the row's ABI constant
\* (ABI is <Self::Abi as Abi>::VALUE).
RowAbi(r) ==
    CHOOSE m \in MarkerNames : MarkerVALUE(m) = r.ABI

\* The callable-subtrait impl emitted beside the FnPtr impl of a row:
\* SafeFnPtr (bound FnPtr<Safety = Safe>) for the safe syntax, UnsafeFnPtr
\* (bound FnPtr<Safety = Unsafe>) for the unsafe syntax.
CallableImpls(r) ==
    (IF RowSafety(r) = "Safe" THEN {"SafeFnPtr"} ELSE {})
    \cup (IF RowSafety(r) = "Unsafe" THEN {"UnsafeFnPtr"} ELSE {})

(***************************************************************************)
(* The substitution bounds of `trait FnPtr`: every implementor must also   *)
(* implement each listed impl-layer trait; cfg is the flag that gates the  *)
(* bound ("" for none).                                                    *)
(***************************************************************************)
FnPtrSupertraits ==
    << [trait |-> "WithOutputImpl", arg |-> "", cfg |-> ""],
       [trait |-> "WithArgsImpl", arg |-> "", cfg |-> ""],
       [trait |-> "WithSafetyImpl", arg |-> "Safe", cfg |-> ""],
       [trait |-> "WithSafetyImpl", arg |-> "Unsafe", cfg |-> ""],
       [trait |-> "WithAbiImpl", arg |-> "Rust", cfg |-> ""],
       [trait |-> "WithAbiImpl", arg |-> "C", cfg |-> ""],
       [trait |-> "WithAbiImpl", arg |-> "CUnwind", cfg |-> ""],
       [trait |-> "WithAbiImpl", arg |-> "System", cfg |-> ""],
       [trait |-> "WithAbiImpl", arg |-> "SystemUnwind", cfg |-> ""],
       [trait |-> "WithAbiImpl", arg |-> "Aapcs", cfg |-> "has_abi_aapcs"],
       [trait |-> "WithAbiImpl", arg |-> "AapcsUnwind", cfg |-> "has_abi_aapcs"],
       [trait |-> "WithAbiImpl", arg |-> "Cdecl", cfg |-> "has_abi_cdecl"],
       [trait |-> "WithAbiImpl", arg |-> "CdeclUnwind", cfg |-> "has_abi_cdecl"],
       [trait |-> "WithAbiImpl", arg |-> "Stdcall", cfg |-> "has_abi_cdecl"],
       [trait |-> "WithAbiImpl", arg |-> "StdcallUnwind", cfg |-> "has_abi_cdecl"],
       [trait |-> "WithAbiImpl", arg |-> "Fastcall", cfg |-> "has_abi_cdecl"],
       [trait |-> "WithAbiImpl", arg |-> "FastcallUnwind", cfg |-> "has_abi_cdecl"],
       [trait |-> "WithAbiImpl", arg |-> "Thiscall", cfg |-> "has_abi_cdecl"],
       [trait |-> "WithAbiImpl", arg |-> "ThiscallUnwind", cfg |-> "has_abi_cdecl"],
       [trait |-> "WithAbiImpl", arg |-> "Vectorcall", cfg |-> "has_abi_vectorcall"],
       [trait |-> "WithAbiImpl", arg |-> "VectorcallUnwind",
        cfg |-> "has_abi_vectorcall"],
       [trait |-> "WithAbiImpl", arg |-> "SysV64", cfg |-> "has_abi_sysv64"],
       [trait |-> "WithAbiImpl", arg |-> "SysV64Unwind", cfg |-> "has_abi_sysv64"],
       [trait |-> "WithAbiImpl", arg |-> "Win64", cfg |-> "has_abi_win64"],
       [trait |-> "WithAbiImpl", arg |-> "Win64Unwind", cfg |-> "has_abi_win64"],
       [trait |-> "WithAbiImpl", arg |-> "EfiApi", cfg |-> "has_abi_efiapi"] >>

\* The cfg flags the core consults (base.rs, conversion.rs, impl.rs,
\* tuple.rs, lib.rs).
ConsultedFlags ==
    {"nightly_build", "has_abi_aapcs", "has_abi_cdecl", "has_abi_stdcall",
     "has_abi_fastcall", "has_abi_vectorcall", "has_abi_sysv64",
     "has_abi_win64", "has_abi_efiapi"}

\* The bounds in force under the flags the build script emitted.
FnPtrBounds ==
    {FnPtrSupertraits[i] : i \in {j \in 1..Len(FnPtrSupertraits) :
                                     FnPtrSupertraits[j].cfg \in cfgs \cup {""}}}

(***************************************************************************)
(* Concrete function-pointer types and the generated impl that covers      *)
(* them.  An impl is generic over its parameter types and Ret; a concrete  *)
(* type is covered by the impl with the same `unsafe`, the same ABI token  *)
(* and the same number of parameters.                                      *)
(***************************************************************************)
Range(s) == {s[i] : i \in 1..Len(s)}

\* A concrete pointer type: [unsafe] [extern "abi"] fn(params) -> ret.
Ptr(unsafe, abi, params, ret) ==
    [FnTy(unsafe, abi, params) EXCEPT !.ret = ret]

\* No impl covers the type; the projection has no impl.
NoRow == [error |-> NoImpl]

NoFn == [error |-> "!no function-pointer type"]

\* The impl trait resolution selects among candidates (equal when the same
\* impl is emitted twice), or NoRow when there is none.
Select(candidates) ==
    IF candidates = {} THEN NoRow ELSE CHOOSE r \in candidates : TRUE

\* The rows emitted for parameter lists of length n: @recurse hands every
\* prefix of an invocation's list to @impl_all.
RowsOfArity(n) ==
    UNION {Range(impl_all(SubSeq(Invocations[i].list, 1, n))) :
              i \in {j \in 1..Len(Invocations) :
                         n <= Len(Invocations[j].list)}}

\* The value a generic impl's type variable v takes for a concrete type.
Subst(tyvars, tys, v) ==
    tys[CHOOSE i \in 1..Len(tyvars) : tyvars[i] = v]

\* A generic type of an impl, with the impl's variables instantiated.
Instantiate(t, tyvars, tys) ==
    [t EXCEPT !.params = [i \in 1..Len(t.params) |->
                              Subst(tyvars, tys, t.params[i])],
              !.ret = Subst(tyvars, tys, t.ret)]

\* The impl selected for a concrete type.
FnPtrImpl(ty) ==
    IF ty = NoFn THEN NoRow
    ELSE Select({r \in RowsOfArity(Len(ty.params)) :
                     r.for.unsafe = ty.unsafe /\ r.for.abi = ty.abi})

\* `type Args` and `type Output` of impl r, instantiated for the type.
ImplArgs(r, ty) ==
    [i \in 1..Len(r.Args) |->
         Subst(Append(r.for.params, r.for.ret),
               Append(ty.params, ty.ret), r.Args[i])]

ImplOutput(r, ty) ==
    Subst(Append(r.for.params, r.for.ret), Append(ty.params, ty.ret),
          r.Output)

\* The four attributes impl r gives the type.
ImplAttrs(r, ty) ==
    IF r = NoRow THEN NoRow
    ELSE [safety |-> RowSafety(r), abi |-> RowAbi(r),
          args |-> ImplArgs(r, ty), output |-> ImplOutput(r, ty)]

\* <F as FnPtr>::Safety, ::Abi, ::Args and ::Output of a concrete type.
Attrs(ty) == ImplAttrs(FnPtrImpl(ty), ty)

(***************************************************************************)
(* The substitution traits.  conv.rs declares each one over an impl-layer  *)
(* trait; build.rs defines each one through BuildFn.                       *)
(***************************************************************************)
\* The type impl r covers, with r's Args and Output bound to args, output.
BuildFnOf(r, args, output) ==
    IF r = NoRow \/ TupleArity(args) = NoImpl THEN NoFn
    ELSE Instantiate(r.for, Append(r.Args, r.Output), Append(args, output))

\* <Args as BuildFn<Safety, Abi, Output>>::F: the type whose FnPtr impl has
\* Args = Self, Output = Output, Safety = Safety and Abi = Abi, present
\* when the generator emits a row with these attributes.
BuildFn(args, safety, abi, output) ==
    BuildFnOf(Select({r \in RowsOfArity(Len(args)) :
                          /\ r.SAFE = SafetyIS_SAFE(safety)
                          /\ r.ABI = MarkerVALUE(abi)}),
              args, output)

\* BuildFn on the attributes a (NoRow when the source type has no impl).
BuildFnFor(a) ==
    IF a = NoRow THEN NoFn
    ELSE BuildFn(a.args, a.safety, a.abi, a.output)

\* build.rs: the four blanket impls for G: FnPtr, each BuildFn on G's
\* attributes with one of them replaced.
\* The WithArgs impl that leaves BuildFn's Output parameter at its default.
BuildWithArgs_default_output(G, args) ==
    BuildFnFor([Attrs(G) EXCEPT !.args = args, !.output = "()"])

BuildWithArgs(G, args) == BuildFnFor([Attrs(G) EXCEPT !.args = args])

\* The WithOutput impl that leaves BuildFn's Abi parameter at its default.
BuildWithOutput_default_abi(G, output) ==
    BuildFnFor([Attrs(G) EXCEPT !.output = output, !.abi = "Rust"])

\* The WithOutput impl that passes G's own output to BuildFn.
BuildWithOutput_keeps_output(G, output) == BuildFnFor(Attrs(G))

BuildWithOutput(G, output) == BuildFnFor([Attrs(G) EXCEPT !.output = output])

BuildWithSafety(G, safety) == BuildFnFor([Attrs(G) EXCEPT !.safety = safety])

BuildWithAbi(G, abi) == BuildFnFor([Attrs(G) EXCEPT !.abi = abi])

\* The entry of row r's WithAbi table for the ABI value, instantiated.
WithAbiEntry(r, F, value) ==
    IF r = NoRow THEN NoFn
    ELSE IF \A i \in 1..Len(r.with_abi) :
                AbiOfIdent(r.with_abi[i].abi) # value
         THEN NoFn
    ELSE Instantiate(r.with_abi[CHOOSE i \in 1..Len(r.with_abi) :
                                    AbiOfIdent(r.with_abi[i].abi) = value].F,
                     Append(r.for.params, r.for.ret),
                     Append(F.params, F.ret))

\* The generated impl-layer ABI substitution of a type.
WithAbiImpl(F, abi) == WithAbiEntry(FnPtrImpl(F), F, MarkerVALUE(abi))

\* conv.rs: WithAbi<Abi> for F: FnPtr + WithAbiImpl<Abi, Self>.
WithAbi(F, abi) == WithAbiImpl(F, abi)

\* The generated impl-layer safety substitution: the safe-variant or the
\* unsafe-variant syntax of the type.
WithSafetyEntry(r, F, safety) ==
    IF r = NoRow THEN NoFn
    ELSE [F EXCEPT !.unsafe = ~SafetyIS_SAFE(safety)]

WithSafetyImpl(F, safety) == WithSafetyEntry(FnPtrImpl(F), F, safety)

\* conv.rs: WithSafety<Safety> for F: FnPtr + WithSafetyImpl<Safety, Self>.
WithSafety(F, safety) == WithSafetyImpl(F, safety)

\* conv.rs: AsSafe and AsUnsafe forward to WithSafety<Safe> / <Unsafe>.
AsSafe(F) == WithSafety(F, "Safe")

AsUnsafe(F) == WithSafety(F, "Unsafe")

\* The generated impl-layer output substitution: the generic associated
\* type F<R>, the same syntax with R for the output.
WithOutputEntry(r, F, output) ==
    IF r = NoRow THEN NoFn ELSE [F EXCEPT !.ret = output]

WithOutputImpl(F, output) == WithOutputEntry(FnPtrImpl(F), F, output)

\* conv.rs: WithOutput<Output> for F: FnPtr + WithOutputImpl<Self>.
WithOutput(F, output) == WithOutputImpl(F, output)

\* BuildFn with its default parameters: Safety = Safe, Abi = Rust,
\* Output = ().
BuildFnDefault(args) == BuildFn(args, "Safe", "Rust", "()")

\* The default pointer `base`, then WithSafety, WithAbi and WithOutput with
\* the attributes a of the source type.
Detour(a, base) ==
    IF a = NoRow THEN NoFn
    ELSE WithOutput(WithAbi(WithSafety(base, a.safety), a.abi), a.output)

\* The generated impl-layer argument substitution F<Args>.
WithArgsImpl(F, args) == Detour(Attrs(F), BuildFnDefault(args))

\* conv.rs: WithArgs<Args: Tuple> for F: FnPtr + WithArgsImpl<Self>.
WithArgs(F, args) ==
    IF TupleArity(args) = NoImpl THEN NoFn ELSE WithArgsImpl(F, args)

(***************************************************************************)
(* The surface macros safety!, with_safety!, make_safe!, make_unsafe! and  *)
(* with_abi!.  A macro argument is one token (a keyword, a literal) or a   *)
(* path naming a marker type.                                              *)
(***************************************************************************)
\* The arms of safety!, in source order.
SafetyMacroArms ==
    << [tok |-> "safe", marker |-> "Safe"],
       [tok |-> "unsafe", marker |-> "Unsafe"],
       [tok |-> "true", marker |-> "Safe"],
       [tok |-> "false", marker |-> "Unsafe"] >>

RECURSIVE safety_macro_from(_, _)
safety_macro_from(tok, i) ==
    IF i > Len(SafetyMacroArms) THEN NoRule
    ELSE IF SafetyMacroArms[i].tok = tok THEN SafetyMacroArms[i].marker
    ELSE safety_macro_from(tok, i + 1)

\* safety! with the two boolean arms exchanged.
safety_macro_bools_swapped(tok) ==
    CASE tok = "true" -> "Unsafe"
      [] tok = "false" -> "Safe"
      [] OTHER -> safety_macro_from(tok, 1)

safety_macro(tok) == safety_macro_from(tok, 1)

\* The fragment `$safety:path` matches a token that can start a path: an
\* identifier that is not a reserved word.
IsPath(tok) == tok \notin {"true", "false", "unsafe"}

\* with_safety!: the arms `safe`, `unsafe`, `$safety:path`, `$safety:tt`, in
\* this order, each ending in <$ty as WithSafety<$safety>>::F.
with_safety_macro(tok, ty) ==
    IF tok = "safe" THEN WithSafety(ty, "Safe")
    ELSE IF tok = "unsafe" THEN WithSafety(ty, "Unsafe")
    ELSE IF IsPath(tok)
         THEN (IF tok \in SafetyNames THEN WithSafety(ty, tok) ELSE NoFn)
    ELSE LET m == safety_macro(tok)
         IN  IF m = NoRule THEN NoFn ELSE WithSafety(ty, m)

make_safe(ty) == WithSafety(ty, "Safe")

\* make_unsafe! that names the Safe marker.
make_unsafe_names_safe(ty) == WithSafety(ty, "Safe")

make_unsafe(ty) == WithSafety(ty, "Unsafe")

\* with_abi! with a string literal: <$ty as WithAbi<abi!($lit)>>::F.
with_abi_macro(lit, ty) ==
    LET m == abi_macro(lit)
    IN  IF m = NoRule THEN NoFn ELSE WithAbi(ty, m)

(***************************************************************************)
(* The state machine of type-level substitution in a compiled crate: the   *)
(* user names a pointer type (`input`) and applies substitutions to it one *)
(* after the other.  `input` is the type the last projection was applied   *)
(* to, and `call` holds that projection: its parameter, the resulting      *)
(* type, and in `want` the attributes requested so far (the source type's  *)
(* own where none was).                                                    *)
(***************************************************************************)
Routes == {"conv", "build"}

SubstAbis ==
    {"Rust", "CUnwind", "Stdcall", "SysV64", "Aapcs"}

ElemTypes == <<"i32", "u8">>

TupleOf(n) == [i \in 1..n |-> ElemTypes[(i % 2) + 1]]

ArgTuples == {TupleOf(n) : n \in {6, 12, 13}}

Outputs == {"()", "i32"}

SafetyTokens == {"safe", "unsafe", "true", "false", "Safe", "Unsafe"}

AbiLiterals ==
    {<<"C">>, <<"w","i","n","6","4">>}

SourceTypes ==
    {Ptr(u, a, t, o) :
        u \in BOOLEAN,
        a \in {NoExtern, <<"s","y","s","t","e","m">>,
               <<"s","t","d","c","a","l","l">>},
        t \in {TupleOf(0)},
        o \in {"i32"}}

SubstInit ==
    /\ arch \in Archs
    /\ os \in {"windows", "linux"}
    /\ arch # "x86_64" => os = "linux"
    /\ channel = "stable"
    /\ features \in {{}, {"max-arity-12"}}
    /\ cfgs = BuildMain(arch, os, channel, features)
    /\ pc = "types"
    /\ pending = <<>>
    /\ impls = <<>>
    /\ input \in SourceTypes
    /\ FnPtrImpl(input) # NoRow
    /\ call = [op |-> "name", arg |-> "", out |-> input,
               want |-> Attrs(input)]

Project(op, arg, out, want) ==
    /\ input' = call.out
    /\ call' = [op |-> op, arg |-> arg, out |-> out, want |-> want]
    /\ UNCHANGED <<target, gen>>

SubstAbi ==
    /\ pc = "types" /\ call.out # NoFn
    /\ \E abi \in SubstAbis, route \in Routes :
           Project("WithAbi", abi,
                   IF route = "conv" THEN WithAbi(call.out, abi)
                   ELSE BuildWithAbi(call.out, abi),
                   [call.want EXCEPT !.abi = abi])

SubstSafety ==
    /\ pc = "types" /\ call.out # NoFn
    /\ \E safety \in SafetyNames, route \in Routes :
           Project("WithSafety", safety,
                   IF route = "conv" THEN WithSafety(call.out, safety)
                   ELSE BuildWithSafety(call.out, safety),
                   [call.want EXCEPT !.safety = safety])

SubstArgs ==
    /\ pc = "types" /\ call.out # NoFn
    /\ \E args \in ArgTuples, route \in Routes :
           Project("WithArgs", args,
                   IF route = "conv" THEN WithArgs(call.out, args)
                   ELSE BuildWithArgs(call.out, args),
                   [call.want EXCEPT !.args = args])

SubstOutput ==
    /\ pc = "types" /\ call.out # NoFn
    /\ \E output \in Outputs, route \in Routes :
           Project("WithOutput", output,
                   IF route = "conv" THEN WithOutput(call.out, output)
                   ELSE BuildWithOutput(call.out, output),
                   [call.want EXCEPT !.output = output])

WithSafetyMacro ==
    /\ pc = "types" /\ call.out # NoFn
    /\ \E tok \in SafetyTokens :
           Project("with_safety!", tok, with_safety_macro(tok, call.out),
                   [call.want EXCEPT !.safety =
                        IF tok \in {"safe", "true", "Safe"} THEN "Safe"
                        ELSE "Unsafe"])

MakeSafe ==
    /\ pc = "types" /\ call.out # NoFn
    /\ Project("make_safe!", "", make_safe(call.out),
               [call.want EXCEPT !.safety = "Safe"])

MakeUnsafe ==
    /\ pc = "types" /\ call.out # NoFn
    /\ Project("make_unsafe!", "", make_unsafe(call.out),
               [call.want EXCEPT !.safety = "Unsafe"])

WithAbiMacro ==
    /\ pc = "types" /\ call.out # NoFn
    /\ \E lit \in AbiLiterals :
           Project("with_abi!", lit, with_abi_macro(lit, call.out),
                   [call.want EXCEPT !.abi =
                        CHOOSE m \in MarkerNames : MarkerSTR(m) = lit])

SubstNext ==
    \/ SubstAbi
    \/ SubstSafety
    \/ SubstArgs
    \/ SubstOutput
    \/ WithSafetyMacro
    \/ MakeSafe
    \/ MakeUnsafe
    \/ WithAbiMacro

SpecSubst == SubstInit /\ [][SubstNext]_vars

(***************************************************************************)
(* Function-pointer values (base.rs).  A value of a pointer type is a bit  *)
(* pattern, the address of the code it points to; an untyped pointer and  *)
(* a usize carry the same bits in another type.                            *)
(***************************************************************************)
\* UntypedFnPtr.
UntypedFnPtrs == {[addr |-> a] : a \in 0..MaxAddr}

null == [addr |-> 0]

is_null(ptr) == ptr.addr = 0

\* `ptr as usize` and `addr as UntypedFnPtr`.
ptr_as_usize(ptr) == ptr.addr

usize_as_ptr(a) == [addr |-> a]

\* The outcome of a failed assertion: the program aborts.
Abort == [abort |-> "assertion failed: !ptr.is_null()"]

\* The functions of the program and their types, at their addresses.
Code ==
    << [name |-> "add", ty |-> Ptr(FALSE, NoExtern, <<"i32", "i32">>, "i32")],
       [name |-> "mul", ty |-> Ptr(TRUE, NoExtern, <<"i32", "i32">>, "i32")],
       [name |-> "square", ty |-> Ptr(FALSE, NoExtern, <<"i32">>, "i32")] >>

\* What a call of the code at an address returns.
CodeAt(a, args) ==
    CASE Code[a].name = "add" -> args[1] + args[2]
      [] Code[a].name = "mul" -> args[1] * args[2]
      [] Code[a].name = "square" -> args[1] * args[1]

\* A value that points to a function of its own type: what the callers of
\* the unchecked operations have to guarantee.
Valid(f) == f.bits \in 1..Len(Code) /\ Code[f.bits].ty = f.ty

\* What a call through a pointer that is not Valid may do.
UBOutcomes == {[crash |-> TRUE], [ret |-> 0], [ret |-> 5]}

\* The generated as_ptr: the bits of the value as an untyped pointer.
as_ptr(f) == [addr |-> f.bits]

\* The generated from_ptr: asserts non-null, then the bits of the pointer
\* as a value of Self.
from_ptr(Self, ptr) ==
    IF is_null(ptr) THEN Abort ELSE [ty |-> Self, bits |-> ptr.addr]

\* The generated invoke: a direct call.
invoke(f, args) ==
    IF Valid(f) THEN {[ret |-> CodeAt(f.bits, args)]} ELSE UBOutcomes

\* addr that keeps only the lowest bit of the address.
addr_truncated(f) == ptr_as_usize(as_ptr(f)) % 2

\* fn addr(&self) -> usize { self.as_ptr() as usize }
addr(f) == ptr_as_usize(as_ptr(f))

\* from_addr that builds the value without going through from_ptr.
from_addr_unchecked(Self, a) == [ty |-> Self, bits |-> a]

\* unsafe fn from_addr(addr: usize) -> Self
from_addr(Self, a) == from_ptr(Self, usize_as_ptr(a))

\* cast that converts the address of `self` instead of its value.
cast_of_reference(f, G) == from_ptr(G, usize_as_ptr(MaxAddr))

\* unsafe fn cast<F: FnPtr>(&self) -> F
cast(f, G) == from_ptr(G, as_ptr(f))

\* fn as_unsafe(&self) -> <Self as WithSafety<Unsafe>>::F
as_unsafe(f) == from_ptr(WithSafety(f.ty, "Unsafe"), as_ptr(f))

\* unsafe fn as_safe(&self) -> <Self as WithSafety<Safe>>::F
as_safe(f) == cast(f, WithSafety(f.ty, "Safe"))

\* unsafe fn with_safety<Safety>(&self) -> <Self as WithSafety<Safety>>::F
with_safety(f, safety) == cast(f, WithSafety(f.ty, safety))

\* unsafe fn with_abi<Abi>(&self) -> <Self as WithAbi<Abi>>::F
with_abi(f, abi) == cast(f, WithAbi(f.ty, abi))

\* unsafe fn with_output<Output>(&self) -> <Self as WithOutput<Output>>::F
with_output(f, output) == cast(f, WithOutput(f.ty, output))

\* unsafe fn with_args<Args: Tuple>(&self) -> <Self as WithArgs<Args>>::F
with_args(f, args) == cast(f, WithArgs(f.ty, args))

(***************************************************************************)
(* The state machine of a running program: `input` is the function-pointer *)
(* value the program holds, `call` the last operation on it, with the      *)
(* receiver, the argument, the result, and in `origin` the bits of the     *)
(* value the current chain of conversions started from.                    *)
(***************************************************************************)
ArgValues == {<<2, 3>>, <<4>>, <<>>}

PtrInit ==
    /\ arch \in {"x86_64", "arm"}
    /\ os = "linux"
    /\ channel = "stable"
    /\ features = {}
    /\ cfgs = BuildMain(arch, os, channel, features)
    /\ pc = "run"
    /\ pending = <<>>
    /\ impls = <<>>
    /\ input \in {[ty |-> Code[a].ty, bits |-> a] : a \in 1..Len(Code)}
    /\ call = [op |-> "coerce", self |-> input, arg |-> "", out |-> input,
               origin |-> input.bits]

\* An operation that reads the value.
Observe(op, arg, out) ==
    /\ call' = [op |-> op, self |-> input, arg |-> arg, out |-> out,
                origin |-> call.origin]
    /\ UNCHANGED <<target, input, gen>>

\* An unchecked reconstruction: the program goes on with the result, or
\* aborts.
Reconstruct(op, arg, out) ==
    /\ call' = [op |-> op, self |-> input, arg |-> arg, out |-> out,
                origin |-> IF out = Abort THEN call.origin ELSE out.bits]
    /\ input' = IF out = Abort THEN input ELSE out
    /\ pc' = IF out = Abort THEN "aborted" ELSE "run"
    /\ UNCHANGED <<target, cfgs, pending, impls>>

\* A conversion: the program goes on with the converted value.
Convert(op, arg, out) ==
    /\ out # Abort
    /\ out.ty # NoFn
    /\ call' = [op |-> op, self |-> input, arg |-> arg, out |-> out,
                origin |-> call.origin]
    /\ input' = out
    /\ UNCHANGED <<target, gen>>

PtrAddr == pc = "run" /\ Observe("addr", "", addr(input))

PtrAsPtr == pc = "run" /\ Observe("as_ptr", "", as_ptr(input))

PtrInvoke ==
    /\ pc = "run"
    /\ \E args \in {a \in ArgValues : Len(a) = Len(input.ty.params)} :
           \E out \in invoke(input, args) : Observe("invoke", args, out)

PtrFromPtr ==
    /\ pc = "run"
    /\ \E ptr \in UntypedFnPtrs :
           Reconstruct("from_ptr", ptr, from_ptr(input.ty, ptr))

PtrFromAddr ==
    /\ pc = "run"
    /\ \E a \in 0..MaxAddr :
           Reconstruct("from_addr", a, from_addr(input.ty, a))

PtrCast ==
    /\ pc = "run"
    /\ \E G \in {Code[2].ty, Ptr(TRUE, <<"C">>, <<>>, "()")} :
           Convert("cast", G, cast(input, G))

PtrAsSafe == pc = "run" /\ Convert("as_safe", "", as_safe(input))

PtrAsUnsafe == pc = "run" /\ Convert("as_unsafe", "", as_unsafe(input))

PtrWithSafety ==
    /\ pc = "run"
    /\ \E safety \in SafetyNames :
           Convert("with_safety", safety, with_safety(input, safety))

PtrWithAbi ==
    /\ pc = "run"
    /\ \E abi \in {"Rust", "C", "SysV64"} :
           Convert("with_abi", abi, with_abi(input, abi))

PtrWithOutput ==
    /\ pc = "run"
    /\ \E output \in Outputs :
           Convert("with_output", output, with_output(input, output))

PtrWithArgs ==
    /\ pc = "run"
    /\ \E args \in {<<"i32">>, <<"i32", "i32">>} :
           Convert("with_args", args, with_args(input, args))

PtrNext ==
    \/ PtrAddr
    \/ PtrAsPtr
    \/ PtrInvoke
    \/ PtrFromPtr
    \/ PtrFromAddr
    \/ PtrCast
    \/ PtrAsSafe
    \/ PtrAsUnsafe
    \/ PtrWithSafety
    \/ PtrWithAbi
    \/ PtrWithOutput
    \/ PtrWithArgs

SpecPtr == PtrInit /\ [][PtrNext]_vars

Init == AbiInit

Next == AbiNext

Spec == Init /\ [][Next]_vars

(***************************************************************************)
(* Properties of the ABI taxonomy.                                         *)
(***************************************************************************)
TokRustUnwind == <<"R","u","s","t","-","u","n","w","i","n","d">>

TokCUnwind == <<"C","-","u","n","w","i","n","d">>

\* C1: parsing is the exact inverse of to_str, for from_str and for
\* from_str_const: a string s parses to V iff s = to_str(V), so to_str
\* round-trips, the 21 tokens are pairwise distinct, every other string is
\* rejected, and the two parse forms agree on every input.
ParseIsInverseOfToStr ==
    /\ call.op = "from_str" =>
           /\ \A V \in AbiValue : (call.out = Ok(V)) <=> (call.s = to_str(V))
           /\ (call.out = Err) <=> (\A V \in AbiValue : call.s # to_str(V))
           /\ call.out \in {Err} \cup {Ok(V) : V \in AbiValue}
           /\ (call.out = Err) <=> (from_str_const(call.s) = None)
           /\ \A V \in AbiValue :
                  (call.out = Ok(V)) <=> (from_str_const(call.s) = Some(V))
    /\ call.op = "from_str_const" =>
           /\ \A V \in AbiValue : (call.out = Some(V)) <=> (call.s = to_str(V))
           /\ (call.out = None) <=> (\A V \in AbiValue : call.s # to_str(V))
           /\ call.out \in {None} \cup {Some(V) : V \in AbiValue}
    /\ call.op = "to_str" =>
           /\ from_str(call.out) = Ok(call.self)
           /\ from_str_const(call.out) = Some(call.self)
           /\ \A W \in AbiValue : W # call.self => to_str(W) # call.out
    /\ (call.op \in {"from_str", "from_str_const"}
        /\ call.s \in {TokRustUnwind, <<"c">>, <<"S","Y","S","T","E","M">>}) =>
           call.out \in {Err, None}

ParsedCUnwind ==
    /\ call.op = "from_str_const"
    /\ call.s = TokCUnwind
    /\ call.out = Some(C(TRUE))

\* C2 as stated: parsing the empty string yields Rust, for from_str and for
\* from_str_const.
EmptyStringParsesToRust ==
    /\ (call.op = "from_str" /\ call.s = <<>>) => call.out = Ok(Rust)
    /\ (call.op = "from_str_const" /\ call.s = <<>>) => call.out = Some(Rust)

\* C2 as amended: parsing the empty string fails, with Err(()) from from_str
\* and None from from_str_const; only the token "Rust" parses to Rust.
EmptyStringIsRejected ==
    /\ (call.op = "from_str" /\ call.s = <<>>) => call.out = Err
    /\ (call.op = "from_str_const" /\ call.s = <<>>) => call.out = None
    /\ (call.op = "from_str" /\ call.out = Ok(Rust)) =>
           call.s = <<"R","u","s","t">>
    /\ (call.op = "from_str_const" /\ call.out = Some(Rust)) =>
           call.s = <<"R","u","s","t">>

ParsedEmptyString ==
    /\ call.op = "from_str_const"
    /\ call.s = <<>>
    /\ call.out = None

\* The cases in which C3 says an ABI is unsupported on a target.
Unsupported(a, o, v) ==
    \/ v = "Aapcs" /\ a \notin {"arm", "aarch64"}
    \/ v \in {"Fastcall", "Stdcall"} /\ a # "x86" /\ o # "windows"
    \/ v = "Thiscall" /\ a # "x86"
    \/ v = "Vectorcall" /\ a \notin {"x86", "x86_64"}
    \/ v \in {"SysV64", "Win64"} /\ a # "x86_64"

\* C3: canonize returns None exactly for Aapcs off ARM, Fastcall/Stdcall off
\* x86 and off Windows, Thiscall off x86, Vectorcall off x86/x86_64, and
\* SysV64/Win64 off x86_64; never for C, Rust, System or Cdecl.
CanonizeNoneExactlyWhenUnsupported ==
    call.op = "canonize" =>
        /\ (call.out = None) <=> Unsupported(arch, os, call.self.variant)
        /\ call.self.variant \in {"C", "Rust", "System", "Cdecl"} =>
               call.out # None
        /\ call.out \in {None} \cup {Some(w) : w \in AbiValue}

ThiscallUnsupportedOnX86_64 ==
    /\ call.op = "canonize"
    /\ call.self = Thiscall(TRUE)
    /\ arch = "x86_64"
    /\ call.out = None

\* C4: canonize of System{u} is Stdcall{u} on x86 Windows without C
\* varargs, else Aapcs{u} on 32-bit arm vexos, else C{u}; has_c_varargs
\* changes the result for no input but System on x86 Windows.
CanonizeSystem ==
    call.op = "canonize" =>
        LET u == call.self.unwind
            x86win == arch = "x86" /\ os = "windows"
            flipped == canonize(call.self, ~call.has_c_varargs)
        IN  /\ call.self.variant = "System" =>
                call.out = Some(IF x86win /\ ~call.has_c_varargs THEN Stdcall(u)
                                ELSE IF arch = "arm" /\ os = "vexos" THEN Aapcs(u)
                                ELSE C(u))
            /\ (call.self.variant = "System" /\ x86win /\ call.has_c_varargs) =>
                   call.out = Some(C(u))
            /\ (call.out # flipped) <=> (call.self.variant = "System" /\ x86win)

SystemWithVarargsOnX86Windows ==
    /\ call.op = "canonize"
    /\ call.self = System(TRUE)
    /\ call.has_c_varargs
    /\ arch = "x86"
    /\ os = "windows"
    /\ call.out = Some(C(TRUE))

\* C5: a Some result for a non-System input follows the rule table: C and
\* Cdecl give C{u}, Rust gives Rust, Fastcall and Stdcall give themselves on
\* x86 and C{u} on non-x86 Windows, the other variants give themselves.
CanonizeRuleTable ==
    (call.op = "canonize" /\ call.out # None /\ call.self.variant # "System") =>
        LET v == call.self.variant
        IN  call.out =
                Some(CASE v \in {"C", "Cdecl"} -> C(call.self.unwind)
                       [] v = "Rust" -> Rust
                       [] v \in {"Fastcall", "Stdcall"} ->
                              IF arch = "x86" THEN call.self
                              ELSE C(call.self.unwind)
                       [] OTHER -> call.self)

StdcallOnX86_64Windows ==
    /\ call.op = "canonize"
    /\ call.self = Stdcall(FALSE)
    /\ arch = "x86_64"
    /\ os = "windows"
    /\ call.out = Some(C(FALSE))

\* C6: canonicalization preserves the unwind flag: a Some result for a
\* payload-bearing input is payload-bearing with the same flag (never Rust),
\* so allows_unwind agrees; and Rust canonizes to Rust.
CanonizePreservesUnwind ==
    call.op = "canonize" =>
        /\ (call.self # Rust /\ call.out # None) =>
               /\ call.out.val.variant \in PayloadVariants
               /\ call.out.val.unwind = call.self.unwind
               /\ allows_unwind(call.out.val) = allows_unwind(call.self)
        /\ call.self = Rust => call.out = Some(Rust)

SystemUnwindOnArmVexos ==
    /\ call.op = "canonize"
    /\ call.self = System(TRUE)
    /\ arch = "arm"
    /\ os = "vexos"
    /\ call.out = Some(Aapcs(TRUE))

\* C7: allows_unwind is true for Rust and is the unwind flag of each
\* payload-bearing variant: for non-Rust values it holds iff the canonical
\* token ends in "-unwind"; a marker's ALLOWS_UNWIND is that of its VALUE.
AllowsUnwindTable ==
    /\ call.op = "allows_unwind" =>
           /\ call.self = Rust => call.out = TRUE
           /\ call.self # Rust =>
                  /\ call.out = call.self.unwind
                  /\ call.out <=> EndsWith(to_str(call.self), UnwindSuffix)
    /\ call.op = "marker" =>
           call.ALLOWS_UNWIND =
               (call.VALUE = Rust \/ EndsWith(call.STR, UnwindSuffix))

RustAllowsUnwind ==
    /\ call.op = "allows_unwind"
    /\ call.self = Rust
    /\ call.out = TRUE

\* C8: one marker type per AbiValue (21 markers, 21 values, the VALUEs
\* pairwise distinct and every value the VALUE of a marker); a marker's STR is the canonical token of its
\* VALUE; abi!(tok) names the marker whose STR is tok, for all 21 tokens.
MarkersMatchValues ==
    /\ call.op = "none" =>
           /\ Len(AbiMarkers) = 21
           /\ Cardinality(MarkerNames) = 21
           /\ Cardinality(AbiValue) = 21
    /\ call.op = "to_str" =>
           \E m \in MarkerNames : MarkerVALUE(m) = call.self
    /\ call.op = "marker" =>
           /\ call.VALUE \in AbiValue
           /\ \A n \in MarkerNames : n # call.name => MarkerVALUE(n) # call.VALUE
           /\ to_str(call.VALUE) = call.STR
           /\ from_str(call.STR) = Ok(call.VALUE)
           /\ from_str_const(call.STR) = Some(call.VALUE)
    /\ (call.op = "abi!" /\ call.tok \in Tokens) =>
           /\ call.out \in MarkerNames
           /\ MarkerSTR(call.out) = call.tok

AbiMacroSysV64Unwind ==
    /\ call.op = "abi!"
    /\ call.tok = <<"s","y","s","v","6","4","-","u","n","w","i","n","d">>
    /\ call.out = "SysV64Unwind"

(***************************************************************************)
(* Properties of the generated impls.                                      *)
(***************************************************************************)
Rows == {impls[i] : i \in 1..Len(impls)}

\* The largest arity the build generates impls for.
MaxArity == IF "max-arity-12" \in features THEN Len(List12) ELSE Len(List6)

\* C9: for every generated impl, ARITY is the number of parameter types of
\* the pointer, the length of its Args tuple, and the N of the arity marker
\* Tuple assigns to that tuple; impls exist for every arity 0..=N.
ArityIsParameterCount ==
    /\ \A r \in Rows :
           /\ r.ARITY = Len(r.for.params)
           /\ r.Args = r.for.params
           /\ r.ARITY = Len(r.Args)
           /\ TupleArity(r.Args) # NoImpl
           /\ ArityN(TupleArity(r.Args)) = r.ARITY
    /\ pc = "done" => {r.ARITY : r \in Rows} = 0..MaxArity

ArityTwelveGenerated ==
    /\ pc = "done"
    /\ \E r \in Rows :
           /\ r.ARITY = 12
           /\ Len(r.for.params) = 12
           /\ TupleArity(r.Args) = "A12"

\* C10: for every generated impl, ABI is the AbiValue of the ABI token
\* written in the pointer's type (Rust without `extern`, else the parse of
\* the token), and EXTERN holds iff that ABI is not Rust.
AbiConstIsTokenOfType ==
    \A r \in Rows :
        /\ r.for.abi = NoExtern => r.ABI = Rust
        /\ r.for.abi # NoExtern =>
               /\ from_str_const(r.for.abi) = Some(r.ABI)
               /\ from_str(r.for.abi) = Ok(r.ABI)
        /\ r.EXTERN <=> (r.ABI # Rust)

ExternCRowGenerated ==
    \E r \in Rows :
        /\ r.for = FnTy(FALSE, <<"C">>, <<"A">>)
        /\ r.ARITY = 1
        /\ r.SAFE
        /\ r.EXTERN
        /\ r.ABI = C(FALSE)

PtrWith(a) ==
    Ptr(~SafetyIS_SAFE(a.safety),
        IF a.abi = "Rust" THEN NoExtern ELSE MarkerSTR(a.abi),
        a.args, a.output)

\* C12: substituting an attribute of a type F of the universe by F's own
\* value gives F back, for each of WithAbi, WithSafety, WithArgs and
\* WithOutput, through the impl-layer traits and through BuildFn.
SubstitutionIdentity ==
    (pc = "types" /\ call.out # NoFn) =>
        LET F == call.out
            a == Attrs(F)
        IN  /\ WithAbi(F, a.abi) = F
            /\ BuildWithAbi(F, a.abi) = F
            /\ WithSafety(F, a.safety) = F
            /\ BuildWithSafety(F, a.safety) = F
            /\ WithArgs(F, a.args) = F
            /\ BuildWithArgs(F, a.args) = F
            /\ WithOutput(F, a.output) = F
            /\ BuildWithOutput(F, a.output) = F

IdentityOnUnsafeStdcall ==
    /\ pc = "types"
    /\ call.out = Ptr(TRUE, <<"s","t","d","c","a","l","l">>, TupleOf(6), "()")
    /\ Attrs(call.out).abi = "Stdcall"
    /\ WithAbi(call.out, "Stdcall") = call.out

\* C13: make_safe! gives the safe and make_unsafe! the unsafe type with the
\* ABI, arguments and output of its operand; on a safe F,
\* make_safe!(make_unsafe!(F)) is F, and on an unsafe F,
\* make_unsafe!(make_safe!(F)) is F.
SafetyIsInvertible ==
    (pc = "types" /\ call.out # NoFn) =>
        LET F == call.out
            a == Attrs(F)
        IN  /\ make_safe(F) = PtrWith([a EXCEPT !.safety = "Safe"])
            /\ make_unsafe(F) = PtrWith([a EXCEPT !.safety = "Unsafe"])
            /\ Attrs(make_safe(F)) = [a EXCEPT !.safety = "Safe"]
            /\ Attrs(make_unsafe(F)) = [a EXCEPT !.safety = "Unsafe"]
            /\ a.safety = "Safe" => make_safe(make_unsafe(F)) = F
            /\ a.safety = "Unsafe" => make_unsafe(make_safe(F)) = F
            /\ a.safety = "Safe" =>
                   BuildWithSafety(BuildWithSafety(F, "Unsafe"), "Safe") = F
            /\ a.safety = "Unsafe" =>
                   BuildWithSafety(BuildWithSafety(F, "Safe"), "Unsafe") = F

MadeUnsafeFromSafeC ==
    /\ pc = "types"
    /\ call.op = "make_unsafe!"
    /\ input = Ptr(FALSE, <<"C">>, TupleOf(0), "i32")
    /\ call.out = Ptr(TRUE, <<"C">>, TupleOf(0), "i32")
    /\ make_safe(call.out) = input

\* C14: the type reached by a sequence of substitutions is the type of the
\* final attributes (the last value given for each attribute, the source
\* type's own value otherwise), and it exists exactly when a type of these
\* attributes is in the universe; any two substitutions of different
\* attributes commute.
Commute(F, abi, safety, args, output) ==
    /\ WithAbi(WithSafety(F, safety), abi) = WithSafety(WithAbi(F, abi), safety)
    /\ WithAbi(WithArgs(F, args), abi) = WithArgs(WithAbi(F, abi), args)
    /\ WithAbi(WithOutput(F, output), abi)
           = WithOutput(WithAbi(F, abi), output)
    /\ WithSafety(WithArgs(F, args), safety)
           = WithArgs(WithSafety(F, safety), args)
    /\ WithSafety(WithOutput(F, output), safety)
           = WithOutput(WithSafety(F, safety), output)
    /\ WithArgs(WithOutput(F, output), args)
           = WithOutput(WithArgs(F, args), output)
    /\ BuildWithAbi(BuildWithSafety(F, safety), abi)
           = BuildWithSafety(BuildWithAbi(F, abi), safety)
    /\ BuildWithAbi(BuildWithArgs(F, args), abi)
           = BuildWithArgs(BuildWithAbi(F, abi), args)
    /\ BuildWithAbi(BuildWithOutput(F, output), abi)
           = BuildWithOutput(BuildWithAbi(F, abi), output)
    /\ BuildWithSafety(BuildWithArgs(F, args), safety)
           = BuildWithArgs(BuildWithSafety(F, safety), args)
    /\ BuildWithSafety(BuildWithOutput(F, output), safety)
           = BuildWithOutput(BuildWithSafety(F, safety), output)
    /\ BuildWithArgs(BuildWithOutput(F, output), args)
           = BuildWithOutput(BuildWithArgs(F, args), output)

SubstitutionsCommute ==
    pc = "types" =>
        /\ call.out # NoFn =>
               /\ call.out = PtrWith(call.want)
               /\ Attrs(call.out) = call.want
        /\ call.out = NoFn =>
               \/ FnPtrImpl(PtrWith(call.want)) = NoRow
               \/ TupleArity(call.want.args) = NoImpl
        /\ call.op = "name" =>
               \A abi \in SubstAbis, safety \in SafetyNames,
                  args \in ArgTuples, output \in Outputs :
                   Commute(input, abi, safety, args, output)

ThreeSubstitutionsApplied ==
    /\ pc = "types"
    /\ call.op = "WithOutput"
    /\ call.out = Ptr(TRUE, <<"s","y","s","v","6","4">>, TupleOf(6), "()")
    /\ call.want = [safety |-> "Unsafe", abi |-> "SysV64",
                    args |-> TupleOf(6), output |-> "()"]
    /\ Attrs(input).output = "i32"

\* C15: WithAbi changes only the ABI: for every generated type (every arity,
\* safe or unsafe, every source ABI) and every WithAbi impl emitted for it,
\* the target is a generated type whose ABI is the impl's ABI and whose
\* safety, argument list and output are the source's; a safe source never
\* maps to an unsafe target nor the reverse.
RowsOf(n) == {r \in Rows : r.ARITY = n}

WithAbiChangesOnlyAbi ==
    \A n \in 0..MaxArity :
        \A r \in RowsOf(n) :
            \A i \in 1..Len(r.with_abi) :
                /\ r.with_abi[i].F.unsafe = r.for.unsafe
                /\ r.with_abi[i].F.params = r.Args
                /\ r.with_abi[i].F.ret = r.Output
                /\ \E t \in RowsOf(n) :
                       /\ t.for = r.with_abi[i].F
                       /\ t.ABI = AbiOfIdent(r.with_abi[i].abi)
                       /\ t.SAFE = r.SAFE
                       /\ t.Args = r.Args
                       /\ t.Output = r.Output

UnsafeRustToSystemEmitted ==
    \E r \in Rows :
        /\ r.for = FnTy(TRUE, NoExtern, <<"A", "B", "C">>)
        /\ \E i \in 1..Len(r.with_abi) :
               /\ r.with_abi[i].abi = "System"
               /\ r.with_abi[i].F
                      = FnTy(TRUE, <<"s","y","s","t","e","m">>, <<"A", "B", "C">>)

\* C16: WithSafety changes only the safety: the result of WithSafety<S>, of
\* with_safety!, of make_safe! and of make_unsafe! has the safety asked for
\* and the ABI, argument list and output of the operand; AsSafe and AsUnsafe
\* are WithSafety<Safe> and WithSafety<Unsafe>; with_safety! maps `safe` and
\* `true` to Safe, `unsafe` and `false` to Unsafe.
WithSafetyChangesOnlySafety ==
    pc = "types" =>
        /\ call.op \in {"WithSafety", "with_safety!", "make_safe!", "make_unsafe!"} =>
               /\ call.out # NoFn
               /\ Attrs(call.out) = [Attrs(input) EXCEPT !.safety = call.want.safety]
               /\ call.out = [input EXCEPT !.unsafe = call.want.safety = "Unsafe"]
        /\ call.op = "with_safety!" =>
               /\ call.arg \in {"safe", "true", "Safe"} <=>
                      Attrs(call.out).safety = "Safe"
               /\ call.arg \in {"unsafe", "false", "Unsafe"} <=>
                      Attrs(call.out).safety = "Unsafe"
        /\ call.op = "WithSafety" => Attrs(call.out).safety = call.arg
        /\ call.out # NoFn =>
               /\ AsSafe(call.out) = WithSafety(call.out, "Safe")
               /\ AsSafe(call.out) = BuildWithSafety(call.out, "Safe")
               /\ AsUnsafe(call.out) = WithSafety(call.out, "Unsafe")
               /\ AsUnsafe(call.out) = BuildWithSafety(call.out, "Unsafe")
               /\ Attrs(AsSafe(call.out)).safety = "Safe"
               /\ Attrs(AsUnsafe(call.out)).safety = "Unsafe"

WithSafetyFalseGivesUnsafe ==
    /\ pc = "types"
    /\ call.op = "with_safety!"
    /\ call.arg = "false"
    /\ input = Ptr(FALSE, <<"s","y","s","t","e","m">>, TupleOf(0), "i32")
    /\ call.out = Ptr(TRUE, <<"s","y","s","t","e","m">>, TupleOf(0), "i32")

\* C17: WithOutput changes only the return type: the result of WithOutput<R>
\* exists, has output R and has the safety, ABI and argument list of the
\* operand, also when R is () and when the operand returns ().
WithOutputChangesOnlyOutput ==
    (pc = "types" /\ call.op = "WithOutput") =>
        /\ call.out # NoFn
        /\ Attrs(call.out) = [Attrs(input) EXCEPT !.output = call.arg]
        /\ call.out = [input EXCEPT !.ret = call.arg]

UnitOutputReplaced ==
    /\ pc = "types"
    /\ call.op = "WithOutput"
    /\ call.arg = "i32"
    /\ input = Ptr(TRUE, <<"s","y","s","t","e","m">>, TupleOf(0), "()")
    /\ call.out = Ptr(TRUE, <<"s","y","s","t","e","m">>, TupleOf(0), "i32")

\* C18: WithArgs is the BuildFn construction and agrees with the detour: for
\* F and a tuple T of length 0..=N, WithArgs<T> of F is BuildFn on T with
\* F's safety, ABI and output, which is the pointer type of attributes
\* (T, F.safety, F.abi, F.output), and is the type reached from BuildFn's
\* defaults on T by WithSafety, WithAbi and WithOutput in any order.
DetourOrders(base, a) ==
    { WithOutput(WithAbi(WithSafety(base, a.safety), a.abi), a.output),
      WithAbi(WithOutput(WithSafety(base, a.safety), a.output), a.abi),
      WithOutput(WithSafety(WithAbi(base, a.abi), a.safety), a.output),
      WithSafety(WithOutput(WithAbi(base, a.abi), a.output), a.safety),
      WithAbi(WithSafety(WithOutput(base, a.output), a.safety), a.abi),
      WithSafety(WithAbi(WithOutput(base, a.output), a.abi), a.safety),
      BuildWithOutput(BuildWithAbi(BuildWithSafety(base, a.safety), a.abi), a.output),
      BuildWithAbi(BuildWithOutput(BuildWithSafety(base, a.safety), a.output), a.abi),
      BuildWithOutput(BuildWithSafety(BuildWithAbi(base, a.abi), a.safety), a.output),
      BuildWithSafety(BuildWithOutput(BuildWithAbi(base, a.abi), a.output), a.safety),
      BuildWithAbi(BuildWithSafety(BuildWithOutput(base, a.output), a.safety), a.abi),
      BuildWithSafety(BuildWithAbi(BuildWithOutput(base, a.output), a.abi), a.safety) }

WithArgsIsBuildFn ==
    (pc = "types" /\ call.op = "WithArgs") =>
        LET a == Attrs(input)
            T == call.arg
        IN  /\ call.out = BuildFn(T, a.safety, a.abi, a.output)
            /\ Len(T) <= MaxArity <=> call.out # NoFn
            /\ call.out # NoFn =>
                   /\ call.out = PtrWith([a EXCEPT !.args = T])
                   /\ Attrs(call.out) = [a EXCEPT !.args = T]
                   /\ BuildFnDefault(T) = Ptr(FALSE, NoExtern, T, "()")
                   /\ DetourOrders(BuildFnDefault(T), a) = {call.out}

WithArgsAtMaxArity ==
    /\ pc = "types"
    /\ call.op = "WithArgs"
    /\ Len(call.arg) = MaxArity
    /\ input = Ptr(TRUE, <<"s","t","d","c","a","l","l">>, TupleOf(0), "i32")
    /\ call.out = Ptr(TRUE, <<"s","t","d","c","a","l","l">>, call.arg, "i32")

(***************************************************************************)
(* Properties of the universe of generated types.                          *)
(***************************************************************************)
\* The impl-layer substitution a bound of FnPtr asks of the type of row r:
\* its result, or NoFn when no such impl is emitted for the row.
BoundResult(r, b) ==
    CASE b.trait = "WithAbiImpl" -> WithAbiEntry(r, r.for, MarkerVALUE(b.arg))
      [] b.trait = "WithSafetyImpl" -> WithSafetyEntry(r, r.for, b.arg)
      [] b.trait = "WithOutputImpl" -> WithOutputEntry(r, r.for, r.Output)
      [] b.trait = "WithArgsImpl" -> BuildFnOf(r, r.Args, r.Output)

\* C19: closed universe: once the generator has finished, for every
\* generated type and every substitution bound of FnPtr in force on the
\* target, an impl of the substitution is emitted for the type and its
\* result is a generated type.
ClosedUniverse ==
    pc = "done" =>
        \A r \in Rows :
            \A b \in FnPtrBounds :
                /\ BoundResult(r, b) # NoFn
                /\ \E t \in Rows : t.for = BoundResult(r, b)

\* The capability flag of an ABI marker: has_abi_<name> of its ABI.
MarkerFlag(m) ==
    CASE m \in {"Aapcs", "AapcsUnwind"} -> "has_abi_aapcs"
      [] m \in {"Cdecl", "CdeclUnwind"} -> "has_abi_cdecl"
      [] m \in {"Stdcall", "StdcallUnwind"} -> "has_abi_stdcall"
      [] m \in {"Fastcall", "FastcallUnwind"} -> "has_abi_fastcall"
      [] m \in {"Thiscall", "ThiscallUnwind"} -> "has_abi_thiscall"
      [] m \in {"Vectorcall", "VectorcallUnwind"} -> "has_abi_vectorcall"
      [] m \in {"SysV64", "SysV64Unwind"} -> "has_abi_sysv64"
      [] m \in {"Win64", "Win64Unwind"} -> "has_abi_win64"
      [] OTHER -> ""

\* The ABI markers enabled on the target: Rust, C, C-unwind, system and
\* system-unwind always, every other one iff its flag is set.
EnabledMarkers == {m \in MarkerNames : MarkerFlag(m) \in cfgs \cup {""}}

EnabledAbis == {MarkerVALUE(m) : m \in EnabledMarkers}

\* C20: platform gating: once the generator has finished, for every arity
\* the (safety, ABI) pairs of the generated rows are exactly
\* {Safe, Unsafe} x the ABIs enabled on the target, and every WithAbi
\* target is an enabled ABI.
RowsAreSafetyTimesEnabledAbis ==
    pc = "done" =>
        /\ \A n \in 0..MaxArity :
               {<<r.SAFE, r.ABI>> : r \in RowsOf(n)} = BOOLEAN \X EnabledAbis
        /\ \A r \in Rows :
               \A i \in 1..Len(r.with_abi) :
                   AbiOfIdent(r.with_abi[i].abi) \in EnabledAbis

(***************************************************************************)
(* Properties of the build script and of the expansion.                    *)
(***************************************************************************)
\* The rows of @impl_all for the prefixes of length 0..k of a list, in order.
RECURSIVE AllPrefixRows(_, _)
AllPrefixRows(list, k) ==
    IF k < 0 THEN <<>>
    ELSE AllPrefixRows(list, k - 1) \o impl_all(SubSeq(list, 1, k))

\* C21: max-arity-12 is strictly additive: once the generator has finished,
\* impls exist for exactly the arities 0..=6 without the feature and 0..=12
\* with it, the rows of arities 0..=6 are those of a build without the
\* feature, no type receives two impls, and an arity has impls exactly when
\* the tuples of that length implement Tuple.
MaxArity12StrictlyAdditive ==
    pc = "done" =>
        /\ {r.ARITY : r \in Rows} = 0..MaxArity
        /\ {r \in Rows : r.ARITY <= Len(List6)}
               = Range(AllPrefixRows(List6, Len(List6)))
        /\ \A i, j \in 1..Len(impls) :
               i # j => impls[i].for # impls[j].for
        /\ \A n \in 0..Len(List12) :
               (\E r \in Rows : r.ARITY = n) <=> TupleArity(Ts(n)) # NoImpl

\* The number of invocations of impl_fn! that are fully expanded.
InvocationsDone == Len(Invocations) - Len(pending)

RECURSIVE RowsOfDone(_)
RowsOfDone(n) ==
    IF n = 0 THEN <<>>
    ELSE RowsOfDone(n - 1)
         \o AllPrefixRows(Invocations[n].list, Len(Invocations[n].list))

\* C26: the expansion of impl_fn! on a list of N pairs invokes @impl_all
\* once for each prefix of length 0, 1, ..., N, in this order, each prefix
\* in the order of the list: after s @recurse steps the accumulated prefix
\* is the first s pairs, the remaining list the other N - s, and the rows
\* emitted are those of the prefixes shorter than s; the expansion is never
\* stuck before it is done; @count of k types is k.
RecurseEnumeratesPrefixes ==
    /\ pc = "expand" =>
           /\ pending # <<>>
           /\ Head(pending).arm \in {"entry", "recurse"}
           /\ Head(pending).arm = "entry" => impls = RowsOfDone(InvocationsDone)
           /\ Head(pending).arm = "recurse" =>
                  /\ Head(pending).acc \o Head(pending).rest
                         = Invocations[InvocationsDone + 1].list
                  /\ count(Tys(Head(pending).acc)) = Len(Head(pending).acc)
                  /\ impls = RowsOfDone(InvocationsDone)
                                 \o AllPrefixRows(Invocations[InvocationsDone + 1].list,
                                                  Len(Head(pending).acc) - 1)
    /\ pc = "done" =>
           /\ pending = <<>>
           /\ impls = RowsOfDone(Len(Invocations))

ThreeOfTwelveAccumulated ==
    /\ pc = "expand"
    /\ Head(pending).arm = "recurse"
    /\ Head(pending).acc = SubSeq(List12, 1, 3)
    /\ Head(pending).rest = SubSeq(List12, 4, 12)
    /\ impls[Len(impls)].Args = <<"A", "B">>

\* The probed ABI tokens: the variant of each and its capability flag.
ProbedTokens ==
    { [variant |-> "Cdecl", flag |-> "has_abi_cdecl"],
      [variant |-> "Stdcall", flag |-> "has_abi_stdcall"],
      [variant |-> "Fastcall", flag |-> "has_abi_fastcall"],
      [variant |-> "Thiscall", flag |-> "has_abi_thiscall"],
      [variant |-> "Vectorcall", flag |-> "has_abi_vectorcall"],
      [variant |-> "Aapcs", flag |-> "has_abi_aapcs"],
      [variant |-> "SysV64", flag |-> "has_abi_sysv64"],
      [variant |-> "Win64", flag |-> "has_abi_win64"] }

\* C25: after the build script has run, every probed token that canonize
\* supports on the target has its flag emitted, and every has_abi_* flag
\* emitted is the flag of a probed token.
FlagForEverySupportedToken ==
    pc # "build" =>
        /\ \A t \in ProbedTokens :
               (\E u \in BOOLEAN : canonize(Payload(t.variant, u), FALSE) # None)
                   => t.flag \in cfgs
        /\ cfgs \ {"nightly"} \subseteq {t.flag : t \in ProbedTokens}

\* C28: capability flags are sound: after the build script has run, the
\* token of every emitted flag canonizes to Some on the target, for both
\* unwind values and both has_c_varargs values; has_abi_win64 and
\* has_abi_sysv64 are never both emitted.
FlagsAreSound ==
    pc # "build" =>
        /\ \A t \in ProbedTokens :
               t.flag \in cfgs =>
                   \A u, h \in BOOLEAN :
                       canonize(Payload(t.variant, u), h) # None
        /\ ~({"has_abi_win64", "has_abi_sysv64"} \subseteq cfgs)

StdcallFlagOnX86Windows ==
    /\ pc = "expand"
    /\ arch = "x86"
    /\ os = "windows"
    /\ "has_abi_stdcall" \in cfgs
    /\ canonize(Stdcall(TRUE), TRUE) = Some(Stdcall(TRUE))

\* C29: the four x86 flags are emitted together or not at all, so the
\* bounds of FnPtr for Stdcall, Fastcall and Thiscall (under has_abi_cdecl)
\* are in force exactly where the rows under has_abi_stdcall and
\* has_abi_fastcall are generated.
X86FlagsTogether ==
    /\ pc # "build" =>
           /\ "has_abi_cdecl" \in cfgs <=> "has_abi_stdcall" \in cfgs
           /\ "has_abi_cdecl" \in cfgs <=> "has_abi_fastcall" \in cfgs
           /\ "has_abi_cdecl" \in cfgs <=> "has_abi_thiscall" \in cfgs
           /\ \A b \in Range(FnPtrSupertraits) :
                  b.arg \in {"Stdcall", "StdcallUnwind", "Fastcall",
                             "FastcallUnwind", "Thiscall", "ThiscallUnwind"}
                      => (b \in FnPtrBounds <=> MarkerFlag(b.arg) \in cfgs)
    /\ pc = "done" =>
           /\ (\E b \in FnPtrBounds : b.arg = "Stdcall")
                  <=> (\E r \in Rows : r.ABI = Stdcall(FALSE))
           /\ (\E b \in FnPtrBounds : b.arg = "Fastcall")
                  <=> (\E r \in Rows : r.ABI = Fastcall(FALSE))

StdcallBoundAndRowsOnX86 ==
    /\ pc = "done"
    /\ arch = "x86"
    /\ \E b \in FnPtrBounds : b.arg = "Stdcall" /\ b.cfg = "has_abi_cdecl"
    /\ \E r \in Rows : r.for = FnTy(TRUE, <<"s","t","d","c","a","l","l">>, <<"A">>)

\* C30: every flag the core consults is emitted by the build script for
\* some target, channel and feature set; the nightly flag is emitted iff
\* (feature nightly without feature stable) or the channel is nightly, and
\* has_abi_vectorcall only on x86 or x86_64 with feature abi_vectorcall and
\* nightly in use.
ConsultedFlagsAreEmitted ==
    /\ \A f \in ConsultedFlags :
           \E a \in Archs, o \in OSes, ch \in Channels, fs \in SUBSET Features :
               f \in BuildMain(a, o, ch, fs)
    /\ pc # "build" =>
           /\ "nightly" \in cfgs <=>
                  \/ "nightly" \in features /\ "stable" \notin features
                  \/ channel = "nightly"
           /\ "has_abi_vectorcall" \in cfgs =>
                  /\ arch \in {"x86", "x86_64"}
                  /\ "abi_vectorcall" \in features
                  /\ "nightly" \in cfgs

\* C27: every value canonize returns is canonical: a Some result is neither
\* System nor Cdecl, and canonize of it, with either value of
\* has_c_varargs on the same target, is Some of it again.
CanonizeIsIdempotent ==
    (call.op = "canonize" /\ call.out # None) =>
        /\ call.out.val.variant \notin {"System", "Cdecl"}
        /\ \A h \in BOOLEAN : canonize(call.out.val, h) = call.out

FastcallCanonizedOnX86_64Windows ==
    /\ call.op = "canonize"
    /\ call.self = Fastcall(TRUE)
    /\ arch = "x86_64"
    /\ os = "windows"
    /\ call.out = Some(C(TRUE))
    /\ canonize(C(TRUE), TRUE) = Some(C(TRUE))

ConvertedType(op, arg, F) ==
    CASE op = "cast" -> arg
      [] op = "as_safe" -> PtrWith([Attrs(F) EXCEPT !.safety = "Safe"])
      [] op = "as_unsafe" -> PtrWith([Attrs(F) EXCEPT !.safety = "Unsafe"])
      [] op = "with_safety" -> PtrWith([Attrs(F) EXCEPT !.safety = arg])
      [] op = "with_abi" -> PtrWith([Attrs(F) EXCEPT !.abi = arg])
      [] op = "with_output" -> PtrWith([Attrs(F) EXCEPT !.output = arg])
      [] op = "with_args" -> PtrWith([Attrs(F) EXCEPT !.args = arg])

ConversionOps ==
    {"cast", "as_safe", "as_unsafe", "with_safety", "with_abi", "with_output",
     "with_args"}

\* C23: value-level conversions are bit-identical: the result of cast,
\* as_safe, as_unsafe, with_safety, with_abi, with_args and with_output has
\* the address of the receiver, which is the address of the value the
\* chain of conversions started from, and its type is the one the
\* substitution trait of the method gives.
ConversionsKeepAddress ==
    /\ (pc = "run" /\ call.op \in ConversionOps) =>
           /\ addr(call.out) = addr(call.self)
           /\ as_ptr(call.out) = as_ptr(call.self)
           /\ call.out.ty = ConvertedType(call.op, call.arg, call.self.ty)
           /\ FnPtrImpl(call.out.ty) # NoRow
    /\ pc = "run" => addr(input) = call.origin

SquareConvertedToC ==
    /\ pc = "run"
    /\ call.op = "with_abi"
    /\ call.arg = "C"
    /\ call.self = [ty |-> Ptr(TRUE, NoExtern, <<"i32">>, "i32"), bits |-> 3]
    /\ call.out = [ty |-> Ptr(TRUE, <<"C">>, <<"i32">>, "i32"), bits |-> 3]
    /\ call.origin = 3

====
